---- MODULE Spec2Model ----
(***************************************************************************)
(* Webflow table builder: CSV codec, style dedup index, node-graph         *)
(* builder, graph extractor and tree traversal of src/src/App.jsx and      *)
(* src/src/components/table-preview.tsx.                                   *)
(*                                                                         *)
(* A JavaScript string is modelled as a sequence of one-character strings, *)
(* so that the codec and the substring search work on characters.          *)
(***************************************************************************)
EXTENDS Integers, Sequences, FiniteSets, TLC

VARIABLES
    \* WebflowTableJsonBuilder component state (App.jsx 329-358)
    cols, rows, includeHead, includeFoot, wrapInSection,
    tableClass, theadClass, tbodyClass, tfootClass, cellClass, rowClass,
    useThInHead, addAriaRole,
    csvText, csvData, csvHasHeaderRow, useSpanFallback,
    treeSearch, expandMode,
    \* DomNodeItem local state: node id -> open flag (App.jsx 44)
    open,
    \* TablePreview local state: the grid under edit (table-preview.tsx 150)
    localRows,
    \* TablePreview mounted on its own: the json prop and what
    \* extractRowsFromXscp made of it (table-preview.tsx 141-146)
    json, extractOut,
    \* one build in progress, seen call by call (App.jsx 563-594)
    styles, styleIndex, uidCalls, ret,
    \* one call of parseCSV, seen pass by pass of its loop (App.jsx 251-311)
    parse,
    \* the values `built` took, render after render (App.jsx 460-770)
    outputs,
    \* DomTreePreview over nodes given to it: the nodes prop, and the
    \* matchSet and ancestorSet computed for it (App.jsx 128-193)
    givenNodes, ancestors,
    \* one call getTextFromNode(cell, indexById): the nodes indexed, the
    \* frames of the calls under way, the value being returned and how the
    \* call ended (table-preview.tsx 52-65)
    search

structVars == <<cols, rows, includeHead, includeFoot, wrapInSection,
                useThInHead, addAriaRole>>
classVars  == <<tableClass, theadClass, tbodyClass, tfootClass, cellClass,
                rowClass>>
csvVars    == <<csvText, csvData, csvHasHeaderRow, useSpanFallback>>
viewVars   == <<treeSearch, expandMode, open, localRows, json, extractOut>>
styleVars  == <<styles, styleIndex, uidCalls, ret>>
parseVars  == <<parse>>
buildVars  == <<outputs>>
walkVars   == <<givenNodes, ancestors>>
searchVars == <<search>>
vars == <<structVars, classVars, csvVars, viewVars, styleVars, parseVars,
          buildVars, walkVars, searchVars>>

-----------------------------------------------------------------------------
(* Bounds of the model *)

MaxGridRows == 2
MaxGridCols == 2
MaxCells == 3
MaxCols == 2
MaxRows == 1
MaxCalls == 2

-----------------------------------------------------------------------------
(* Characters and strings *)

QUOTE == "\""
COMMA == ","
LF    == "\n"
CR    == "\r"
SPACE == " "

EmptyStr == <<>>

\* csvData is null or a grid (useState(null), App.jsx 349)
NullCsv == [isNull |-> TRUE, rows |-> <<>>]
Grid(g) == [isNull |-> FALSE, rows |-> g]

RECURSIVE SumSeq(_)
SumSeq(s) == IF s = <<>> THEN 0 ELSE Head(s) + SumSeq(Tail(s))

RECURSIVE Join(_, _)
\* Array.prototype.join
Join(parts, sep) ==
    IF Len(parts) = 0 THEN <<>>
    ELSE IF Len(parts) = 1 THEN parts[1]
    ELSE parts[1] \o sep \o Join(Tail(parts), sep)

-----------------------------------------------------------------------------
(* CSV codec (App.jsx 251-325) *)

ParseInit ==
    [i |-> 1, inQuotes |-> FALSE, field |-> <<>>, row |-> <<>>, rows |-> <<>>]

\* the pass of the loop with a carriage return left where it is
ParseStepCRKept(input, s) ==
    LET ch == input[s.i] IN
    IF s.inQuotes
    THEN IF ch = QUOTE
         THEN IF s.i + 1 <= Len(input) /\ input[s.i + 1] = QUOTE
              THEN [s EXCEPT !.field = Append(@, QUOTE), !.i = @ + 2]
              ELSE [s EXCEPT !.inQuotes = FALSE, !.i = @ + 1]
         ELSE [s EXCEPT !.field = Append(@, ch), !.i = @ + 1]
    ELSE IF ch = QUOTE
         THEN [s EXCEPT !.inQuotes = TRUE, !.i = @ + 1]
    ELSE IF ch = COMMA
         THEN [s EXCEPT !.row = Append(@, s.field), !.field = <<>>,
                        !.i = @ + 1]
    ELSE IF ch = LF
         THEN [s EXCEPT !.rows = Append(@, Append(s.row, s.field)),
                        !.row = <<>>, !.field = <<>>, !.i = @ + 1]
    ELSE IF ch = CR
         THEN s
    ELSE [s EXCEPT !.field = Append(@, ch), !.i = @ + 1]

\* the pass of the loop with a carriage return dropped inside quotes too
ParseStepCRDropped(input, s) ==
    LET ch == input[s.i] IN
    IF s.inQuotes
    THEN IF ch = QUOTE
         THEN IF s.i + 1 <= Len(input) /\ input[s.i + 1] = QUOTE
              THEN [s EXCEPT !.field = Append(@, QUOTE), !.i = @ + 2]
              ELSE [s EXCEPT !.inQuotes = FALSE, !.i = @ + 1]
         ELSE IF ch = CR
         THEN [s EXCEPT !.i = @ + 1]
         ELSE [s EXCEPT !.field = Append(@, ch), !.i = @ + 1]
    ELSE IF ch = QUOTE
         THEN [s EXCEPT !.inQuotes = TRUE, !.i = @ + 1]
    ELSE IF ch = COMMA
         THEN [s EXCEPT !.row = Append(@, s.field), !.field = <<>>,
                        !.i = @ + 1]
    ELSE IF ch = LF
         THEN [s EXCEPT !.rows = Append(@, Append(s.row, s.field)),
                        !.row = <<>>, !.field = <<>>, !.i = @ + 1]
    ELSE IF ch = CR
         THEN [s EXCEPT !.i = @ + 1]
    ELSE [s EXCEPT !.field = Append(@, ch), !.i = @ + 1]

\* one pass of the while loop of parseCSV at position s.i (1-based)
ParseStep(input, s) ==
    LET ch == input[s.i] IN
    IF s.inQuotes
    THEN IF ch = QUOTE
         THEN IF s.i + 1 <= Len(input) /\ input[s.i + 1] = QUOTE
              THEN [s EXCEPT !.field = Append(@, QUOTE), !.i = @ + 2]
              ELSE [s EXCEPT !.inQuotes = FALSE, !.i = @ + 1]
         ELSE [s EXCEPT !.field = Append(@, ch), !.i = @ + 1]
    ELSE IF ch = QUOTE
         THEN [s EXCEPT !.inQuotes = TRUE, !.i = @ + 1]
    ELSE IF ch = COMMA
         THEN [s EXCEPT !.row = Append(@, s.field), !.field = <<>>,
                        !.i = @ + 1]
    ELSE IF ch = LF
         THEN [s EXCEPT !.rows = Append(@, Append(s.row, s.field)),
                        !.row = <<>>, !.field = <<>>, !.i = @ + 1]
    ELSE IF ch = CR
         THEN [s EXCEPT !.i = @ + 1]
    ELSE [s EXCEPT !.field = Append(@, ch), !.i = @ + 1]

RECURSIVE ParseLoop(_, _)
ParseLoop(input, s) ==
    IF s.i <= Len(input) THEN ParseLoop(input, ParseStep(input, s)) ELSE s

\* the flush with the last row kept whatever it holds
ParseFlushAlways(s) == Append(s.rows, Append(s.row, s.field))

\* the flush after the loop: the last row is kept unless it is one empty field
ParseFlush(s) ==
    LET row == Append(s.row, s.field) IN
    IF Len(row) > 1 \/ row[1] # <<>> THEN Append(s.rows, row) ELSE s.rows

parseCSV(input) == ParseFlush(ParseLoop(input, ParseInit))

\* the cell with its quotes left single
EscapeQuotesKept(cell) == cell

RECURSIVE EscapeQuotes(_)
\* String(cell).replace(/"/g, '""')
EscapeQuotes(cell) ==
    IF cell = <<>> THEN <<>>
    ELSE (IF Head(cell) = QUOTE THEN <<QUOTE, QUOTE>> ELSE <<Head(cell)>>)
         \o EscapeQuotes(Tail(cell))

\* the quoting test without the carriage return
needsQuoteNoCR(cell) ==
    \E i \in 1..Len(cell) : cell[i] \in {QUOTE, COMMA, LF}

\* /[",\n\r]/.test(cell)
needsQuote(cell) ==
    \E i \in 1..Len(cell) : cell[i] \in {QUOTE, COMMA, LF, CR}

stringifyCell(cell) ==
    IF needsQuote(cell)
    THEN <<QUOTE>> \o EscapeQuotes(cell) \o <<QUOTE>>
    ELSE EscapeQuotes(cell)

stringifyCSV(g) ==
    Join([r \in 1..Len(g) |->
            Join([c \in 1..Len(g[r]) |-> stringifyCell(g[r][c])], <<COMMA>>)],
         <<LF>>)

-----------------------------------------------------------------------------
(* Ids and nodes (App.jsx 219-247) *)

\* uid(prefix): a random string; modelled as the prefix and the number of the
\* uid call, which makes every id of a build a fresh one
uid(prefix, k) == <<prefix, k>>

NullId == <<>>

\* a node without a `data` object (the text nodes)
NoData == [tag |-> "", attributes |-> <<>>, slot |-> "", text |-> FALSE]

makeDomNode(id, tag, classes, attributes) ==
    [_id |-> id, type |-> "DOM", tag |-> "div", classes |-> classes,
     children |-> <<>>,
     data |-> [tag |-> tag, attributes |-> attributes, slot |-> "",
               text |-> FALSE],
     text |-> FALSE, v |-> <<>>]

makeTextNode(id, textValue) ==
    [_id |-> id, type |-> "", tag |-> "", classes |-> <<>>,
     children |-> <<>>, data |-> NoData,
     text |-> TRUE, v |-> textValue]

-----------------------------------------------------------------------------
(* Style dedup index (App.jsx 546-604) *)

IsSpace(ch) == ch \in {SPACE, LF, CR, "\t"}

RECURSIVE TrimStart(_)
TrimStart(str) ==
    IF str # <<>> /\ IsSpace(Head(str)) THEN TrimStart(Tail(str)) ELSE str

RECURSIVE TrimEnd(_)
TrimEnd(str) ==
    IF str # <<>> /\ IsSpace(str[Len(str)])
    THEN TrimEnd(SubSeq(str, 1, Len(str) - 1)) ELSE str

\* String.prototype.trim
Trim(str) == TrimEnd(TrimStart(str))

RECURSIVE SplitWs(_, _)
\* String.prototype.split(/\s+/), cur the token being read
SplitWs(str, cur) ==
    IF str = <<>> THEN <<cur>>
    ELSE IF IsSpace(Head(str)) THEN <<cur>> \o SplitWs(TrimStart(str), <<>>)
    ELSE SplitWs(Tail(str), Append(cur, Head(str)))

PresetSectionTable == <<"s","e","c","t","i","o","n","_","t","a","b","l","e">>
PresetPaddingGlobal ==
    <<"p","a","d","d","i","n","g","-","g","l","o","b","a","l">>
PresetContainerLarge ==
    <<"c","o","n","t","a","i","n","e","r","-","l","a","r","g","e">>
PresetPaddingSection ==
    <<"p","a","d","d","i","n","g","-","s","e","c","t","i","o","n","-",
      "m","e","d","i","u","m">>
PresetTableComponent ==
    <<"t","a","b","l","e","_","c","o","m","p","o","n","e","n","t">>

\* SECTION_PRESETS: name -> {styleLess, variants}
SECTION_PRESETS ==
    (PresetSectionTable :> [styleLess |-> "", variants |-> {}])
    @@ (PresetPaddingGlobal :>
          [styleLess |-> "padding-right: 5%; padding-left: 5%;",
           variants |-> {}])
    @@ (PresetContainerLarge :>
          [styleLess |->
             "width: 100%; max-width: 80rem; margin-right: auto; margin-left: auto;",
           variants |-> {}])
    @@ (PresetPaddingSection :>
          [styleLess |-> "padding-top: 5rem; padding-bottom: 5rem;",
           variants |-> {"medium", "small"}])
    @@ (PresetTableComponent :> [styleLess |-> "", variants |-> {}])

\* the utility-class lookup: every class token of this model is unknown to it
tailwindToStyleLess(name) == ""

\* F(x) for the value of x: x is computed once, before F, as a statement
\* `const x = ...` is
Let(x, F(_)) == CHOOSE v \in {F(y) : y \in {x}} : TRUE

\* a build in progress: the nodes and styles pushed so far, the dedup cache
\* and the number of uid calls made
EmptyBuild == [nodes |-> <<>>, styles |-> <<>>, styleIndex |-> <<>>, n |-> 0]

StyleRecord(id, name) ==
    [_id |-> id, type |-> "class", name |-> name,
     styleLess |-> IF name \in DOMAIN SECTION_PRESETS
                   THEN SECTION_PRESETS[name].styleLess
                   ELSE tailwindToStyleLess(name),
     variants |-> IF name \in DOMAIN SECTION_PRESETS
                  THEN SECTION_PRESETS[name].variants ELSE {},
     children |-> <<>>]

\* ensureStyle without the cache lookup
ensureStyleNoCache(b, name) ==
    IF name = <<>> \/ Trim(name) = <<>> THEN [b |-> b, id |-> NullId]
    ELSE LET id == uid("cls_", b.n + 1) IN
         [b |-> [b EXCEPT !.styles = Append(@, StyleRecord(id, name)),
                          !.styleIndex = (name :> id) @@ @,
                          !.n = @ + 1],
          id |-> id]

\* ensureStyle(name): the id, and the build after the call
ensureStyle(b, name) ==
    IF name = <<>> \/ Trim(name) = <<>> THEN [b |-> b, id |-> NullId]
    ELSE IF name \in DOMAIN b.styleIndex
    THEN [b |-> b, id |-> b.styleIndex[name]]
    ELSE LET id == uid("cls_", b.n + 1) IN
         [b |-> [b EXCEPT !.styles = Append(@, StyleRecord(id, name)),
                          !.styleIndex = (name :> id) @@ @,
                          !.n = @ + 1],
          id |-> id]

RECURSIVE FlatTokens(_)
\* list.flatMap(n => n ? String(n).trim().split(/\s+/) : [])
FlatTokens(list) ==
    IF list = <<>> THEN <<>>
    ELSE (IF Head(list) = <<>> THEN <<>> ELSE SplitWs(Trim(Head(list)), <<>>))
         \o FlatTokens(Tail(list))

RECURSIVE EnsureAll(_, _, _)
\* names.map(ensureStyle).filter(Boolean)
EnsureAll(b, names, acc) ==
    IF names = <<>> THEN [b |-> b, ids |-> acc]
    ELSE Let(ensureStyle(b, Head(names)), LAMBDA r :
             EnsureAll(r.b, Tail(names),
                       IF r.id = NullId THEN acc ELSE Append(acc, r.id)))

classIds(b, list) ==
    EnsureAll(b, SelectSeq(FlatTokens(list), LAMBDA n : n # <<>>), <<>>)

\* the argument `x ? [x] : []` of the classIds calls
ClassList(c) == IF c = <<>> THEN <<>> ELSE <<c>>

-----------------------------------------------------------------------------
(* Node-graph builder (App.jsx 361-368, 461-753) *)

\* Math.max() of no arguments is -Infinity: a column count below zero
NegInfinity == -1

MaxLen(g) ==
    IF g = <<>> THEN NegInfinity
    ELSE CHOOSE m \in {Len(g[i]) : i \in 1..Len(g)} :
            \A i \in 1..Len(g) : Len(g[i]) <= m

effectiveCols == IF ~csvData.isNull THEN MaxLen(csvData.rows) ELSE cols

effectiveRows ==
    IF ~csvData.isNull
    THEN IF csvHasHeaderRow
         THEN (IF Len(csvData.rows) - 1 > 0 THEN Len(csvData.rows) - 1 ELSE 0)
         ELSE Len(csvData.rows)
    ELSE rows

\* bodyRowCount with the header row counted among the rows
bodyRowCountLessHeader ==
    IF ~csvData.isNull THEN effectiveRows
    ELSE IF includeHead THEN rows - 1 ELSE rows

\* App.jsx 681
bodyRowCount == IF ~csvData.isNull THEN effectiveRows ELSE rows

\* App.jsx 631
cellCount == IF ~csvData.isNull THEN effectiveCols ELSE cols

\* push(node) of a node whose id took one uid call
push(b, node) == [b EXCEPT !.nodes = Append(@, node), !.n = @ + 1]

\* nodes[idx].children.push(cid)
AddChild(b, idx, cid) ==
    [b EXCEPT !.nodes[idx].children = Append(@, cid)]

\* the source row index with the body not moved past the header row
SourceRowIndexNoOffset(sectionTag, rIndex) == rIndex

\* the index of the source row of row rIndex of a section (0-based)
SourceRowIndex(sectionTag, rIndex) ==
    IF csvHasHeaderRow /\ sectionTag = "tbody" THEN rIndex + 1 ELSE rIndex

\* sourceRow of makeRow: <<row>>, or <<>> for null and undefined
SourceRow(sectionTag, rIndex) ==
    LET k == SourceRowIndex(sectionTag, rIndex) + 1 IN
    IF ~csvData.isNull /\ k \in 1..Len(csvData.rows)
    THEN <<csvData.rows[k]>> ELSE <<>>

\* the text of the first cell of the source row, for every cell
TextValueOfFirst(sourceRow, c) ==
    IF ~csvData.isNull /\ sourceRow # <<>> /\ 1 <= Len(sourceRow[1])
    THEN sourceRow[1][1] ELSE <<>>

\* textValue of cell c (0-based): sourceRow[c] ?? ""
TextValue(sourceRow, c) ==
    IF ~csvData.isNull /\ sourceRow # <<>> /\ c + 1 <= Len(sourceRow[1])
    THEN sourceRow[1][c + 1] ELSE <<>>

\* the text node's id attached to the cell, the node itself not pushed
AttachTextNoPush(b, cellIdx, textValue) ==
    IF csvData.isNull THEN b
    ELSE AddChild(b, cellIdx, uid("t_", b.n + 1))

\* the text of a cell attached under a span, or straight under the cell
AttachText(b, cellIdx, textValue) ==
    IF csvData.isNull THEN b
    ELSE IF useSpanFallback
    THEN Let(push(b, makeDomNode(uid("n_", b.n + 1), "span", <<>>, <<>>)),
           LAMBDA b1 :
         Let(push(b1, makeTextNode(uid("t_", b1.n + 1), textValue)),
           LAMBDA b2 :
         Let(AddChild(b2, Len(b1.nodes), b2.nodes[Len(b2.nodes)]._id),
           LAMBDA b3 :
         AddChild(b3, cellIdx, b3.nodes[Len(b1.nodes)]._id))))
    ELSE Let(push(b, makeTextNode(uid("t_", b.n + 1), textValue)),
           LAMBDA b1 :
         AddChild(b1, cellIdx, b1.nodes[Len(b1.nodes)]._id))

RECURSIVE makeCells(_, _, _, _, _)
\* the for loop of makeRow from cell c (0-based) on
makeCells(b, trIdx, cellTag, sourceRow, c) ==
    IF c >= cellCount THEN b
    ELSE Let(classIds(b, ClassList(cellClass)),
           LAMBDA cl :
         Let(push(cl.b, makeDomNode(uid("n_", cl.b.n + 1), cellTag, cl.ids,
                                    <<>>)),
           LAMBDA b1 :
         Let(AttachText(b1, Len(b1.nodes), TextValue(sourceRow, c)),
           LAMBDA b2 :
         Let(AddChild(b2, trIdx, b2.nodes[Len(b1.nodes)]._id),
           LAMBDA b3 :
         makeCells(b3, trIdx, cellTag, sourceRow, c + 1)))))

\* makeRow(sectionTag, rIndex): the build after it, and the index of the tr
makeRow(b, sectionTag, rIndex) ==
    Let(classIds(b, ClassList(rowClass)),
      LAMBDA cl :
    Let(push(cl.b, makeDomNode(uid("n_", cl.b.n + 1), "tr", cl.ids, <<>>)),
      LAMBDA b1 :
    Let(makeCells(b1, Len(b1.nodes),
                  IF sectionTag = "thead" /\ useThInHead THEN "th" ELSE "td",
                  SourceRow(sectionTag, rIndex), 0),
      LAMBDA b2 :
    [b |-> b2, tr |-> Len(b1.nodes)])))

\* a section element with one row (thead, tfoot)
OneRowSection(b, sectionTag, class) ==
    Let(classIds(b, ClassList(class)),
      LAMBDA cl :
    Let(push(cl.b, makeDomNode(uid("n_", cl.b.n + 1), sectionTag, cl.ids,
                               <<>>)),
      LAMBDA b1 :
    Let(makeRow(b1, sectionTag, 0),
      LAMBDA r :
    [b |-> AddChild(r.b, Len(b1.nodes), r.b.nodes[r.tr]._id),
     idx |-> Len(b1.nodes)])))

RECURSIVE BodyRows(_, _, _)
\* the for loop over the body rows from row r (0-based) on
BodyRows(b, tbodyIdx, r) ==
    IF r >= bodyRowCount THEN b
    ELSE Let(makeRow(b, "tbody", r),
           LAMBDA m :
         Let(AddChild(m.b, tbodyIdx, m.b.nodes[m.tr]._id),
           LAMBDA b1 :
         BodyRows(b1, tbodyIdx, r + 1)))

\* table.children in creation order with the footer before the body
AttachSectionsFooterFirst(b, tableIdx, theadIdx, tbodyIdx, tfootIdx) ==
    Let(IF theadIdx # 0
        THEN AddChild(b, tableIdx, b.nodes[theadIdx]._id) ELSE b,
      LAMBDA b1 :
    Let(IF tfootIdx # 0
        THEN AddChild(b1, tableIdx, b1.nodes[tfootIdx]._id) ELSE b1,
      LAMBDA b2 :
    AddChild(b2, tableIdx, b2.nodes[tbodyIdx]._id)))

\* App.jsx 699-701; index 0 stands for a section that was not made
AttachSections(b, tableIdx, theadIdx, tbodyIdx, tfootIdx) ==
    Let(IF theadIdx # 0
        THEN AddChild(b, tableIdx, b.nodes[theadIdx]._id) ELSE b,
      LAMBDA b1 :
    Let(AddChild(b1, tableIdx, b1.nodes[tbodyIdx]._id),
      LAMBDA b2 :
    IF tfootIdx # 0
    THEN AddChild(b2, tableIdx, b2.nodes[tfootIdx]._id) ELSE b2))

\* one wrapper div of the section template
Wrapper(b, preset) ==
    Let(classIds(b, <<preset>>),
      LAMBDA cl :
    push(cl.b, makeDomNode(uid("n_", cl.b.n + 1), "div", cl.ids, <<>>)))

\* the five wrappers, outer first, made after node number outer
WrapperChain(b) ==
    Let(Wrapper(b, PresetSectionTable), LAMBDA b1 :
    Let(Wrapper(b1, PresetPaddingGlobal), LAMBDA b2 :
    Let(Wrapper(b2, PresetContainerLarge), LAMBDA b3 :
    Let(Wrapper(b3, PresetPaddingSection), LAMBDA b4 :
    Wrapper(b4, PresetTableComponent)))))

\* the wrappers chained, the table left out of the innermost
WrapInSectionTableLeft(b, tableIdx) ==
    Let(WrapperChain(b), LAMBDA b5 :
    Let(AddChild(b5, Len(b.nodes) + 1, b5.nodes[Len(b.nodes) + 2]._id),
      LAMBDA c1 :
    Let(AddChild(c1, Len(b.nodes) + 2, c1.nodes[Len(b.nodes) + 3]._id),
      LAMBDA c2 :
    Let(AddChild(c2, Len(b.nodes) + 3, c2.nodes[Len(b.nodes) + 4]._id),
      LAMBDA c3 :
    AddChild(c3, Len(b.nodes) + 4, c3.nodes[Len(b.nodes) + 5]._id)))))

\* App.jsx 703-728
WrapInSection(b, tableIdx) ==
    Let(WrapperChain(b), LAMBDA b5 :
    Let(AddChild(b5, Len(b.nodes) + 1, b5.nodes[Len(b.nodes) + 2]._id),
      LAMBDA c1 :
    Let(AddChild(c1, Len(b.nodes) + 2, c1.nodes[Len(b.nodes) + 3]._id),
      LAMBDA c2 :
    Let(AddChild(c2, Len(b.nodes) + 3, c2.nodes[Len(b.nodes) + 4]._id),
      LAMBDA c3 :
    Let(AddChild(c3, Len(b.nodes) + 4, c3.nodes[Len(b.nodes) + 5]._id),
      LAMBDA c4 :
    AddChild(c4, Len(b.nodes) + 5, c4.nodes[tableIdx]._id))))))

\* the useMemo `built`: the payload {nodes, styles} of the current state
built ==
    Let(classIds(EmptyBuild, ClassList(tableClass)),
      LAMBDA cl :
    Let(push(cl.b, makeDomNode(uid("n_", cl.b.n + 1), "table", cl.ids,
                               IF addAriaRole
                               THEN <<[name |-> "role", value |-> "table"]>>
                               ELSE <<>>)),
      LAMBDA b1 :
    Let(IF includeHead THEN OneRowSection(b1, "thead", theadClass)
        ELSE [b |-> b1, idx |-> 0],
      LAMBDA h :
    Let(classIds(h.b, ClassList(tbodyClass)),
      LAMBDA bc :
    Let(push(bc.b, makeDomNode(uid("n_", bc.b.n + 1), "tbody", bc.ids, <<>>)),
      LAMBDA b2 :
    Let(BodyRows(b2, Len(b2.nodes), 0),
      LAMBDA b3 :
    Let(IF includeFoot THEN OneRowSection(b3, "tfoot", tfootClass)
        ELSE [b |-> b3, idx |-> 0],
      LAMBDA f :
    Let(AttachSections(f.b, Len(b1.nodes), h.idx, Len(b2.nodes), f.idx),
      LAMBDA b4 :
    Let(IF wrapInSection THEN WrapInSection(b4, Len(b1.nodes)) ELSE b4,
      LAMBDA b5 :
    [nodes |-> b5.nodes, styles |-> b5.styles])))))))))

-----------------------------------------------------------------------------
(* Graph extractor (table-preview.tsx 52-133) *)

\* (node?.data?.tag || node?.tag || "").toLowerCase(); the tags are lower case
normalizeTag(node) == IF node.data.tag # "" THEN node.data.tag ELSE node.tag

\* indexById.has(id)
HasId(nodes, id) == \E i \in 1..Len(nodes) : nodes[i]._id = id

\* indexById.get(id): the last node set under the id
GetById(nodes, id) ==
    nodes[CHOOSE i \in 1..Len(nodes) :
            /\ nodes[i]._id = id
            /\ \A j \in 1..Len(nodes) : nodes[j]._id = id => j <= i]

\* ids.map(id => indexById.get(id)).filter(Boolean)
Resolve(nodes, ids) ==
    LET present == SelectSeq(ids, LAMBDA id : HasId(nodes, id)) IN
    [k \in 1..Len(present) |-> GetById(nodes, present[k])]

\* the first element of a sequence of nodes with the tag: <<node>> or <<>>
FindTag(seq, tag) ==
    LET hits == SelectSeq(seq, LAMBDA n : normalizeTag(n) = tag) IN
    IF hits = <<>> THEN <<>> ELSE <<hits[1]>>

RECURSIVE getTextFromNode(_, _)
RECURSIVE FirstText(_, _)

\* the text of the first child, empty or not
FirstTextAny(nodes, cids) ==
    IF cids = <<>> THEN <<>>
    ELSE IF HasId(nodes, Head(cids))
    THEN getTextFromNode(nodes, GetById(nodes, Head(cids)))
    ELSE <<>>

\* the for loop of getTextFromNode over the child ids left
FirstText(nodes, cids) ==
    IF cids = <<>> THEN <<>>
    ELSE LET t == IF HasId(nodes, Head(cids))
                  THEN getTextFromNode(nodes, GetById(nodes, Head(cids)))
                  ELSE <<>>
         IN IF t # <<>> THEN t ELSE FirstText(nodes, Tail(cids))

getTextFromNode(nodes, node) ==
    IF node.text THEN node.v ELSE FirstText(nodes, node.children)

\* the cells of one tr
ReadCells(nodes, tr) ==
    LET cellNodes == SelectSeq(Resolve(nodes, tr.children),
                        LAMBDA n : normalizeTag(n) \in {"td", "th"})
    IN [c \in 1..Len(cellNodes) |-> getTextFromNode(nodes, cellNodes[c])]

\* readSectionRows(section), section <<node>> or <<>>
readSectionRows(nodes, section) ==
    IF section = <<>> THEN <<>>
    ELSE LET trNodes == SelectSeq(Resolve(nodes, section[1].children),
                           LAMBDA n : normalizeTag(n) = "tr")
         IN [r \in 1..Len(trNodes) |-> ReadCells(nodes, trNodes[r])]

NullExtract == [isNull |-> TRUE, rows |-> <<>>, hasHeader |-> FALSE]

\* nodes.find(n => normalizeTag(n) === "table"): <<node>> or <<>>
tableNode(payload) == FindTag(payload.nodes, "table")

\* the table's child of a section tag: <<node>> or <<>>
SectionOf(payload, tag) ==
    IF tableNode(payload) = <<>> THEN <<>>
    ELSE FindTag(Resolve(payload.nodes, tableNode(payload)[1].children), tag)

headRows(payload) ==
    readSectionRows(payload.nodes, SectionOf(payload, "thead"))
bodyRows(payload) ==
    readSectionRows(payload.nodes, SectionOf(payload, "tbody"))
footerRows(payload) ==
    readSectionRows(payload.nodes, SectionOf(payload, "tfoot"))

\* the extraction with the footer rows put after the body rows
extractRowsWithFooter(payload) ==
    IF Len(payload.nodes) = 0 \/ tableNode(payload) = <<>> THEN NullExtract
    ELSE [isNull |-> FALSE,
          rows |-> headRows(payload) \o bodyRows(payload)
                   \o footerRows(payload),
          hasHeader |-> Len(headRows(payload)) > 0]

\* extractRowsFromXscp of a payload. JSON.stringify and JSON.parse return the
\* nodes as they are: they hold strings, booleans and arrays only
extractRowsFromXscp(payload) ==
    IF Len(payload.nodes) = 0 \/ tableNode(payload) = <<>> THEN NullExtract
    ELSE LET head == headRows(payload)
             body == bodyRows(payload)
             hasHeader == Len(head) > 0
         IN [isNull |-> FALSE,
             rows |-> IF hasHeader THEN head \o body ELSE body,
             hasHeader |-> hasHeader]

\* TablePreview's extracted value for json = built.json
extracted == Let(built, LAMBDA payload : extractRowsFromXscp(payload))

\* an element null of a nodes array
JsNull == [jsNull |-> TRUE]

\* the value of payload.nodes: absent, an array, or a string
NoNodes == [kind |-> "absent", items |-> <<>>]
NodeArray(items) == [kind |-> "array", items |-> items]
NodeText(chars) == [kind |-> "text", items |-> chars]

\* the json prop: absent (undefined, null, ""), a string that JSON.parse
\* rejects or accepts, or an object; with or without a payload
AbsentJson ==
    [form |-> "absent", parses |-> FALSE, hasPayload |-> FALSE,
     nodes |-> NoNodes]
BadText ==
    [form |-> "text", parses |-> FALSE, hasPayload |-> FALSE,
     nodes |-> NoNodes]
Envelope(form, hasPayload, nodes) ==
    [form |-> form, parses |-> TRUE, hasPayload |-> hasPayload,
     nodes |-> nodes]

\* what a call of extractRowsFromXscp ends in
NotCalled == [outcome |-> "none", rows |-> <<>>, hasHeader |-> FALSE]
ReturnsNull == [outcome |-> "null", rows |-> <<>>, hasHeader |-> FALSE]
Throws == [outcome |-> "throw", rows |-> <<>>, hasHeader |-> FALSE]
Returns(e) == [outcome |-> "rows", rows |-> e.rows, hasHeader |-> e.hasHeader]

\* payload?.nodes || []
NodesOf(j) ==
    IF j.hasPayload /\ j.nodes.items # <<>> THEN j.nodes ELSE NodeArray(<<>>)

\* extractRowsFromXscp(json) from the json prop on: the try block around
\* JSON.parse, then the nodes, read without a test of what they are
extractEnvelope(j) ==
    IF j.form = "absent" THEN ReturnsNull
    ELSE IF j.form = "text" /\ ~j.parses THEN ReturnsNull
    ELSE Let(NodesOf(j), LAMBDA nodes :
         IF Len(nodes.items) = 0 THEN ReturnsNull
         \* nodes.forEach of a string: not a function
         ELSE IF nodes.kind = "text" THEN Throws
         \* n._id of null
         ELSE IF \E i \in 1..Len(nodes.items) : nodes.items[i] = JsNull
         THEN Throws
         ELSE Let(extractRowsFromXscp([nodes |-> nodes.items]), LAMBDA e :
              IF e.isNull THEN ReturnsNull ELSE Returns(e)))

-----------------------------------------------------------------------------
(* Inputs *)

\* class strings typed into a class field
ClassStrings == {<<>>, <<"a", SPACE, "a", SPACE, "b">>}
CellClassStrings == {<<>>, <<"a">>}

\* CSV files
SampleTexts ==
    { <<>>,
      <<"a", COMMA, "b", LF, "c", COMMA, "d", LF>>,
      <<"a", COMMA, "b", LF, "c">>,
      <<"a", LF, "b", LF, "c">>,
      <<QUOTE, "a", COMMA, "b", QUOTE, COMMA, "c", CR, LF, COMMA, "d">> }

-----------------------------------------------------------------------------
(* The component after construction (App.jsx 329-358) *)

InitApp ==
    /\ cols = 3 /\ rows = 3
    /\ includeHead = TRUE /\ includeFoot = FALSE /\ wrapInSection = FALSE
    /\ tableClass = <<>> /\ theadClass = <<>> /\ tbodyClass = <<>>
    /\ tfootClass = <<>> /\ cellClass = <<>> /\ rowClass = <<>>
    /\ useThInHead = TRUE /\ addAriaRole = TRUE
    /\ csvText = <<>> /\ csvData = NullCsv
    /\ csvHasHeaderRow = TRUE /\ useSpanFallback = FALSE
    /\ treeSearch = <<>> /\ expandMode = "auto"

\* the tree preview, the table preview and the call-by-call build are
\* followed in their own specifications
IdleTree == open = <<>>
IdlePreview ==
    /\ localRows = <<>> /\ json = AbsentJson /\ extractOut = NotCalled
IdleStyle ==
    /\ styles = <<>> /\ styleIndex = <<>> /\ uidCalls = 0 /\ ret = <<>>

\* no call of parseCSV followed
NotParsing == [input |-> <<>>, s |-> ParseInit, out |-> <<>>, running |-> FALSE]
IdleParse == parse = NotParsing

\* the builds not followed
IdleBuilds == outputs = <<>>

\* no nodes given to a tree of their own
NotWalked == [computed |-> FALSE, match |-> {}, set |-> {}]
IdleWalk == givenNodes = <<>> /\ ancestors = NotWalked

\* getTextFromNode not called
NotSearching ==
    [nodes |-> <<>>, stack |-> <<>>, ret |-> <<>>, status |-> "idle",
     result |-> <<>>]
IdleSearch == search = NotSearching

Init ==
    /\ InitApp /\ IdleTree /\ IdlePreview /\ IdleStyle /\ IdleParse
    /\ IdleBuilds /\ IdleWalk /\ IdleSearch

-----------------------------------------------------------------------------
(* Handlers of the builder form (App.jsx 370-384, 806-995) *)

SetCols(n) ==
    /\ cols' = n
    /\ UNCHANGED <<rows, includeHead, includeFoot, wrapInSection, useThInHead,
                   addAriaRole, classVars, csvVars, viewVars, styleVars,
                   parseVars, buildVars, walkVars, searchVars>>

SetRows(n) ==
    /\ rows' = n
    /\ UNCHANGED <<cols, includeHead, includeFoot, wrapInSection, useThInHead,
                   addAriaRole, classVars, csvVars, viewVars, styleVars,
                   parseVars, buildVars, walkVars, searchVars>>

SetIncludeHead ==
    /\ includeHead' = ~includeHead
    /\ UNCHANGED <<cols, rows, includeFoot, wrapInSection, useThInHead,
                   addAriaRole, classVars, csvVars, viewVars, styleVars,
                   parseVars, buildVars, walkVars, searchVars>>

SetIncludeFoot ==
    /\ includeFoot' = ~includeFoot
    /\ UNCHANGED <<cols, rows, includeHead, wrapInSection, useThInHead,
                   addAriaRole, classVars, csvVars, viewVars, styleVars,
                   parseVars, buildVars, walkVars, searchVars>>

SetWrapInSection ==
    /\ wrapInSection' = ~wrapInSection
    /\ UNCHANGED <<cols, rows, includeHead, includeFoot, useThInHead,
                   addAriaRole, classVars, csvVars, viewVars, styleVars,
                   parseVars, buildVars, walkVars, searchVars>>

SetUseThInHead ==
    /\ useThInHead' = ~useThInHead
    /\ UNCHANGED <<cols, rows, includeHead, includeFoot, wrapInSection,
                   addAriaRole, classVars, csvVars, viewVars, styleVars,
                   parseVars, buildVars, walkVars, searchVars>>

SetAddAriaRole ==
    /\ addAriaRole' = ~addAriaRole
    /\ UNCHANGED <<cols, rows, includeHead, includeFoot, wrapInSection,
                   useThInHead, classVars, csvVars, viewVars, styleVars,
                   parseVars, buildVars, walkVars, searchVars>>

SetTableClass(s) ==
    /\ tableClass' = s
    /\ UNCHANGED <<theadClass, tbodyClass, tfootClass, cellClass, rowClass,
                   structVars, csvVars, viewVars, styleVars,
                   parseVars, buildVars, walkVars, searchVars>>

SetCellClass(s) ==
    /\ cellClass' = s
    /\ UNCHANGED <<tableClass, theadClass, tbodyClass, tfootClass, rowClass,
                   structVars, csvVars, viewVars, styleVars,
                   parseVars, buildVars, walkVars, searchVars>>

SetCsvHasHeaderRow ==
    /\ csvHasHeaderRow' = ~csvHasHeaderRow
    /\ UNCHANGED <<csvText, csvData, useSpanFallback,
                   structVars, classVars, viewVars, styleVars,
                   parseVars, buildVars, walkVars, searchVars>>

SetUseSpanFallback ==
    /\ useSpanFallback' = ~useSpanFallback
    /\ UNCHANGED <<csvText, csvData, csvHasHeaderRow,
                   structVars, classVars, viewVars, styleVars,
                   parseVars, buildVars, walkVars, searchVars>>

\* handleCsvFile: reader.onload of a file holding text
HandleCsvFile(text) ==
    /\ csvText' = text
    /\ csvData' = Grid(parseCSV(text))
    /\ UNCHANGED <<csvHasHeaderRow, useSpanFallback,
                   structVars, classVars, viewVars, styleVars,
                   parseVars, buildVars, walkVars, searchVars>>

\* the Clear CSV button
ClearCsv ==
    /\ csvText' = <<>>
    /\ csvData' = NullCsv
    /\ UNCHANGED <<csvHasHeaderRow, useSpanFallback,
                   structVars, classVars, viewVars, styleVars,
                   parseVars, buildVars, walkVars, searchVars>>

Next ==
    \/ \E n \in 0..MaxCols : SetCols(n)
    \/ \E n \in 0..MaxRows : SetRows(n)
    \/ SetIncludeHead
    \/ SetIncludeFoot
    \/ SetWrapInSection
    \/ SetUseThInHead
    \/ SetAddAriaRole
    \/ \E s \in ClassStrings : SetTableClass(s)
    \/ \E s \in CellClassStrings : SetCellClass(s)
    \/ SetCsvHasHeaderRow
    \/ SetUseSpanFallback
    \/ \E text \in SampleTexts : HandleCsvFile(text)
    \/ ClearCsv

Spec == Init /\ [][Next]_vars

\* the handlers that change which nodes are built and how they hang together
NextShape ==
    \/ \E n \in 0..MaxCols : SetCols(n)
    \/ \E n \in 0..MaxRows : SetRows(n)
    \/ SetIncludeHead
    \/ SetIncludeFoot
    \/ SetWrapInSection
    \/ SetCsvHasHeaderRow
    \/ SetUseSpanFallback
    \/ \E text \in SampleTexts : HandleCsvFile(text)
    \/ ClearCsv

SpecShape == Init /\ [][NextShape]_vars

-----------------------------------------------------------------------------
(* The CSV codec under edit (App.jsx 381-384, 985-993, 1173-1181) *)

\* cell strings: the empty string, a plain character and the characters the
\* codec treats specially
CellValues == {<<>>, <<"a">>, <<QUOTE>>, <<COMMA>>, <<LF>>, <<CR>>}

\* the row lengths of the grids, rows of no cell included
Shapes ==
    {s \in UNION {[1..m -> 0..MaxGridCols] : m \in 0..MaxGridRows} :
        SumSeq(s) <= MaxCells}

\* the grid of shape s whose cells, row by row, are flat
Split(s, flat) ==
    [r \in 1..Len(s) |->
        SubSeq(flat, SumSeq(SubSeq(s, 1, r - 1)) + 1,
                     SumSeq(SubSeq(s, 1, r))) ]

\* string[][] values handed to onEdit
CodecGrids ==
    UNION {{Split(s, flat) : flat \in [1..SumSeq(s) -> CellValues]} :
             s \in Shapes}

InitCodec ==
    /\ InitApp /\ IdleTree /\ IdleStyle
    /\ localRows \in CodecGrids
    /\ json = AbsentJson /\ extractOut = NotCalled
    /\ IdleParse /\ IdleBuilds /\ IdleWalk /\ IdleSearch

\* onEdit(localRows): setCsvData(rows); setCsvText(stringifyCSV(rows))
OnEdit ==
    /\ csvData' = Grid(localRows)
    /\ csvText' = stringifyCSV(localRows)
    /\ UNCHANGED <<csvHasHeaderRow, useSpanFallback,
                   structVars, classVars, viewVars, styleVars,
                   parseVars, buildVars, walkVars, searchVars>>

\* handleCsvTextPaste: the Parse CSV button
HandleCsvTextPaste ==
    /\ csvData' = Grid(parseCSV(csvText))
    /\ UNCHANGED <<csvText, csvHasHeaderRow, useSpanFallback,
                   structVars, classVars, viewVars, styleVars,
                   parseVars, buildVars, walkVars, searchVars>>

NextCodec ==
    \/ OnEdit
    \/ HandleCsvTextPaste
    \/ ClearCsv

SpecCodec == InitCodec /\ [][NextCodec]_vars

-----------------------------------------------------------------------------
(* One build, ensureStyle call by ensureStyle call (App.jsx 563-594) *)

\* names handed to ensureStyle
StyleNames == {<<>>, <<SPACE>>, <<"a">>, <<"b">>, PresetPaddingSection}

\* `const styles = []; const styleIndex = new Map()` of a new build
StartBuild ==
    /\ styles' = <<>> /\ styleIndex' = <<>> /\ uidCalls' = 0 /\ ret' = <<>>
    /\ UNCHANGED <<structVars, classVars, csvVars, viewVars, parseVars,
                   buildVars, walkVars, searchVars>>

\* one call ensureStyle(name). ret keeps, by name, the id the last call
\* returned and the number of calls made, counted up to MaxCalls
EnsureStyleCall(name) ==
    /\ LET r == ensureStyle([nodes |-> <<>>, styles |-> styles,
                             styleIndex |-> styleIndex, n |-> uidCalls], name)
           k == IF name \in DOMAIN ret THEN ret[name].calls ELSE 0
       IN /\ styles' = r.b.styles
          /\ styleIndex' = r.b.styleIndex
          /\ uidCalls' = r.b.n
          /\ ret' = (name :> [id |-> r.id,
                              calls |-> IF k < MaxCalls THEN k + 1 ELSE k])
                    @@ ret
    /\ UNCHANGED <<structVars, classVars, csvVars, viewVars, parseVars,
                   buildVars, walkVars, searchVars>>

NextEnsure ==
    \/ StartBuild
    \/ \E name \in StyleNames : EnsureStyleCall(name)

SpecEnsure == Init /\ [][NextEnsure]_vars

-----------------------------------------------------------------------------
(* Tree traversal of the preview (App.jsx 27-216, 1037-1073) *)

\* the characters of a tag name
TagChars(tag) ==
    CASE tag = "table" -> <<"t", "a", "b", "l", "e">>
      [] tag = "thead" -> <<"t", "h", "e", "a", "d">>
      [] tag = "tbody" -> <<"t", "b", "o", "d", "y">>
      [] tag = "tfoot" -> <<"t", "f", "o", "o", "t">>
      [] tag = "tr"    -> <<"t", "r">>
      [] tag = "th"    -> <<"t", "h">>
      [] tag = "td"    -> <<"t", "d">>
      [] tag = "span"  -> <<"s", "p", "a", "n">>
      [] tag = "div"   -> <<"d", "i", "v">>
      [] OTHER         -> <<>>

\* String.prototype.toLowerCase, on the upper-case letters of TreeQueries
ToLower(str) ==
    [i \in 1..Len(str) |->
        CASE str[i] = "T" -> "t" [] str[i] = "D" -> "d" [] OTHER -> str[i]]

\* String.prototype.includes
Includes(hay, needle) ==
    \E k \in 0..(Len(hay) - Len(needle)) :
        SubSeq(hay, k + 1, k + Len(needle)) = needle

\* indexById.get(id) of DomTreePreview
indexById(nodes, id) ==
    LET hits == SelectSeq(nodes, LAMBDA n : n._id = id) IN hits[Len(hits)]

\* classNameById.get(id): <<name>>, or <<>> for undefined
classNameById(payload, id) ==
    LET hits == SelectSeq(payload.styles, LAMBDA st : st._id = id) IN
    IF hits = <<>> THEN <<>> ELSE <<hits[Len(hits)].name>>

\* parentById.get(id): <<parent id>>, or <<>> for undefined
parentById(nodes, id) ==
    LET ps == SelectSeq(nodes,
                 LAMBDA n : \E k \in 1..Len(n.children) : n.children[k] = id)
    IN IF ps = <<>> THEN <<>> ELSE <<ps[Len(ps)]._id>>

\* the nodes not referenced as a child
roots(nodes) == SelectSeq(nodes, LAMBDA n : parentById(nodes, n._id) = <<>>)

\* (searchQuery || "").trim().toLowerCase()
q(searchQuery) == ToLower(Trim(searchQuery))

\* the test of the matchSet loop for node n and a non-empty query
Matches(payload, n, query) ==
    \/ Includes(TagChars(IF n.data.tag # "" THEN n.data.tag ELSE n.tag), query)
    \/ \E k \in 1..Len(n.classes) :
          LET cn == classNameById(payload, n.classes[k]) IN
          cn # <<>> /\ Includes(ToLower(cn[1]), query)

\* the ids of matchSet in insertion order
MatchSeq(payload, query) ==
    IF query = <<>> THEN <<>>
    ELSE LET hits == SelectSeq(payload.nodes,
                        LAMBDA n : Matches(payload, n, query))
         IN [k \in 1..Len(hits) |-> hits[k]._id]

matchSet(payload, query) ==
    LET ms == MatchSeq(payload, query) IN {ms[k] : k \in 1..Len(ms)}

\* the walk with the parent of a match as its only step
WalkUpParentOnly(nodes, set, cur) ==
    IF cur = <<>> THEN set ELSE set \cup {cur[1]}

RECURSIVE WalkUp(_, _, _)
\* while (cur && !set.has(cur)) { set.add(cur); cur = parentById.get(cur) }
WalkUp(nodes, set, cur) ==
    IF cur = <<>> \/ cur[1] \in set THEN set
    ELSE WalkUp(nodes, set \cup {cur[1]}, parentById(nodes, cur[1]))

\* the for loop of ancestorSet with the walk of the first match only
AncestorsOfFirst(nodes, ids, set) ==
    IF ids = <<>> THEN set
    ELSE WalkUp(nodes, set, parentById(nodes, Head(ids)))

RECURSIVE AncestorsOf(_, _, _)
\* the for loop of ancestorSet over the matches left
AncestorsOf(nodes, ids, set) ==
    IF ids = <<>> THEN set
    ELSE Let(WalkUp(nodes, set, parentById(nodes, Head(ids))),
           LAMBDA next :
         AncestorsOf(nodes, Tail(ids), next))

ancestorSet(payload, query) ==
    AncestorsOf(payload.nodes, MatchSeq(payload, query), {})

RECURSIVE Rendered(_, _, _)
\* the DomNodeItems rendered for node id at a depth and below it, as
\* <<id, depth>> pairs
Rendered(nodes, id, depth) ==
    LET cs == indexById(nodes, id).children IN
    {<<id, depth>>}
    \cup UNION {Rendered(nodes, cs[k], depth + 1) : k \in 1..Len(cs)}

\* every DomNodeItem of the tree
RenderedTree(nodes) ==
    LET rs == roots(nodes) IN
    UNION {Rendered(nodes, rs[k]._id, 0) : k \in 1..Len(rs)}

\* the dependencies of the effect of each DomNodeItem, by node id:
\* [expandMode, isMatch, isAncestorOfMatch, depth]
EffectDeps(payload, searchQuery, mode) ==
    Let(matchSet(payload, q(searchQuery)), LAMBDA m :
    Let(ancestorSet(payload, q(searchQuery)), LAMBDA a :
    Let(RenderedTree(payload.nodes), LAMBDA items :
    [id \in {it[1] : it \in items} |->
       <<mode, id \in m, id \in a,
         (CHOOSE it \in items : it[1] = id)[2]>>])))

\* the value the effect hands to setOpen
EffectOpen(deps) ==
    IF deps[1] = "all" THEN TRUE
    ELSE IF deps[1] = "collapse" THEN FALSE
    ELSE deps[2] \/ deps[3] \/ deps[4] < 1

\* the open flags once every DomNodeItem is mounted and its effect has run
MountOpen ==
    Let(built, LAMBDA payload :
    Let(EffectDeps(payload, treeSearch, expandMode), LAMBDA deps :
    [id \in DOMAIN deps |-> EffectOpen(deps[id])]))

\* the open flags after a render with a new query and mode: the effect runs
\* again in the items whose dependencies changed
RunEffects(searchQuery, mode) ==
    Let(built, LAMBDA payload :
    Let(EffectDeps(payload, treeSearch, expandMode), LAMBDA old :
    Let(EffectDeps(payload, searchQuery, mode), LAMBDA new :
    [id \in DOMAIN open |->
       IF new[id] # old[id] THEN EffectOpen(new[id]) ELSE open[id]])))

\* search strings typed into the search field
TreeQueries ==
    {<<>>, <<"t", "d">>, <<SPACE, "T", "D">>, <<"t">>, <<"a">>}

\* the graphs whose tree is shown: builder settings reached with the form
InitTree ==
    /\ cols = 3 /\ rows = 3
    /\ includeHead \in BOOLEAN /\ includeFoot \in BOOLEAN
    /\ wrapInSection \in BOOLEAN
    /\ tableClass = <<>> /\ theadClass = <<>> /\ tbodyClass = <<>>
    /\ tfootClass = <<>> /\ cellClass \in CellClassStrings /\ rowClass = <<>>
    /\ useThInHead = TRUE /\ addAriaRole = TRUE
    /\ \/ csvText = <<>> /\ csvData = NullCsv
       \/ /\ csvText = <<"a", COMMA, "b", LF, "c", COMMA, "d", LF>>
          /\ csvData = Grid(parseCSV(csvText))
    /\ csvHasHeaderRow = TRUE /\ useSpanFallback \in BOOLEAN
    /\ treeSearch = <<>> /\ expandMode = "auto"
    /\ IdleTree /\ IdlePreview /\ IdleStyle /\ IdleParse /\ IdleBuilds
    /\ IdleWalk /\ IdleSearch

\* the first render: every DomNodeItem is mounted
MountTree ==
    /\ open = <<>>
    /\ open' = MountOpen
    /\ UNCHANGED <<treeSearch, expandMode, localRows, json, extractOut,
                   structVars, classVars, csvVars, styleVars,
                   parseVars, buildVars, walkVars, searchVars>>

\* the search field of the rendered page
SetTreeSearch(s) ==
    /\ open # <<>>
    /\ treeSearch' = s
    /\ open' = RunEffects(s, expandMode)
    /\ UNCHANGED <<expandMode, localRows, json, extractOut,
                   structVars, classVars, csvVars, styleVars,
                   parseVars, buildVars, walkVars, searchVars>>

\* the Expand all and Collapse all buttons
SetExpandMode(mode) ==
    /\ open # <<>>
    /\ expandMode' = mode
    /\ open' = RunEffects(treeSearch, mode)
    /\ UNCHANGED <<treeSearch, localRows, json, extractOut,
                   structVars, classVars, csvVars, styleVars,
                   parseVars, buildVars, walkVars, searchVars>>

\* the Reset button
ResetTree ==
    /\ open # <<>>
    /\ expandMode' = "auto"
    /\ treeSearch' = <<>>
    /\ open' = RunEffects(<<>>, "auto")
    /\ UNCHANGED <<localRows, json, extractOut,
                   structVars, classVars, csvVars, styleVars,
                   parseVars, buildVars, walkVars, searchVars>>

NextTree ==
    \/ MountTree
    \/ \E s \in TreeQueries : SetTreeSearch(s)
    \/ \E mode \in {"all", "collapse"} : SetExpandMode(mode)
    \/ ResetTree

SpecTree == InitTree /\ [][NextTree]_vars

-----------------------------------------------------------------------------
(* The tree under clicks on its nodes (App.jsx 91-100) *)

RECURSIVE AncestorIds(_, _)
\* the ids of the DomNodeItems above the item of node id
AncestorIds(nodes, id) ==
    LET up == parentById(nodes, id) IN
    IF up = <<>> THEN {} ELSE {up[1]} \cup AncestorIds(nodes, up[1])

\* a small table, so that every pattern of clicks is followed
InitTreeClick ==
    /\ cols = 1 /\ rows = 1
    /\ includeHead \in BOOLEAN /\ includeFoot = FALSE
    /\ wrapInSection = FALSE
    /\ tableClass = <<>> /\ theadClass = <<>> /\ tbodyClass = <<>>
    /\ tfootClass = <<>> /\ cellClass = <<>> /\ rowClass = <<>>
    /\ useThInHead = TRUE /\ addAriaRole = TRUE
    /\ csvText = <<>> /\ csvData = NullCsv
    /\ csvHasHeaderRow = TRUE /\ useSpanFallback = FALSE
    /\ treeSearch = <<>> /\ expandMode = "auto"
    /\ IdleTree /\ IdlePreview /\ IdleStyle /\ IdleParse /\ IdleBuilds
    /\ IdleWalk /\ IdleSearch

\* the summary of node id shows when every details element above is open
SummaryShows(id) ==
    Let(built, LAMBDA payload :
        \A a \in AncestorIds(payload.nodes, id) : open[a])

\* the open flags after a click on the summary of node id: the click bubbles
\* through the details element of the node and of every node above it, each
\* calls setOpen(event), and the event object is a truthy value of `open`
ClickOpen(id) ==
    Let(built, LAMBDA payload :
    Let(AncestorIds(payload.nodes, id), LAMBDA above :
        [n \in DOMAIN open |->
           IF n = id \/ n \in above THEN TRUE ELSE open[n]]))

\* a click on the summary of node id; no effect dependency changes
ClickNode(id) ==
    /\ open # <<>>
    /\ id \in DOMAIN open
    /\ SummaryShows(id)
    /\ open' = ClickOpen(id)
    /\ UNCHANGED <<treeSearch, expandMode, localRows, json, extractOut,
                   structVars, classVars, csvVars, styleVars,
                   parseVars, buildVars, walkVars, searchVars>>

\* the ids a click may land on
ClickIds == {uid("n_", k) : k \in 1..7}

NextTreeClick ==
    \/ MountTree
    \/ \E s \in TreeQueries : SetTreeSearch(s)
    \/ \E mode \in {"all", "collapse"} : SetExpandMode(mode)
    \/ ResetTree
    \/ \E id \in ClickIds : ClickNode(id)

SpecTreeClick == InitTreeClick /\ [][NextTreeClick]_vars

-----------------------------------------------------------------------------
(* Build after build: the useMemo `built` run again (App.jsx 219-223, 460-770) *)

MaxBuilds == 2

\* what Math.random().toString(36).slice(2, 10) and the last four digits of
\* Date.now() give: any string, and nothing keeps two calls from the same one
RandomStrings == {"x", "y", "z"}

\* the strings uid returns in the calls of one build, by number of the call
RandomTapes == [1..3 -> RandomStrings]

\* the id of uid call number id[2], the call returning tape[id[2]]
Drawn(id, tape) == IF id = NullId THEN id ELSE <<id[1], tape[id[2]]>>

\* the payload of a build whose uid calls return the strings of the tape
WithUids(payload, tape) ==
    [nodes |->
       [i \in 1..Len(payload.nodes) |->
          LET n == payload.nodes[i] IN
          [n EXCEPT !._id = Drawn(n._id, tape),
                    !.children = [k \in 1..Len(n.children) |->
                                    Drawn(n.children[k], tape)],
                    !.classes = [k \in 1..Len(n.classes) |->
                                   Drawn(n.classes[k], tape)]]],
     styles |->
       [i \in 1..Len(payload.styles) |->
          [payload.styles[i] EXCEPT !._id = Drawn(@, tape)]]]

\* the value of `built` for the state and the tape, kept with the class
\* string it was built for
BuildOutput(tape) ==
    [tableClass |-> tableClass, payload |-> WithUids(built, tape)]

\* a table of no body row: a build makes the table and the tbody node, and
\* the Style record of a class of the table
InitBuilds ==
    /\ cols = 1 /\ rows = 0
    /\ includeHead = FALSE /\ includeFoot = FALSE /\ wrapInSection = FALSE
    /\ tableClass = <<>> /\ theadClass = <<>> /\ tbodyClass = <<>>
    /\ tfootClass = <<>> /\ cellClass = <<>> /\ rowClass = <<>>
    /\ useThInHead = TRUE /\ addAriaRole = TRUE
    /\ csvText = <<>> /\ csvData = NullCsv
    /\ csvHasHeaderRow = TRUE /\ useSpanFallback = FALSE
    /\ treeSearch = <<>> /\ expandMode = "auto"
    /\ IdleTree /\ IdlePreview /\ IdleStyle /\ IdleParse /\ IdleBuilds
    /\ IdleWalk /\ IdleSearch

\* the first render: useMemo computes `built`
FirstBuild(tape) ==
    /\ outputs = <<>>
    /\ outputs' = <<BuildOutput(tape)>>
    /\ UNCHANGED <<structVars, classVars, csvVars, viewVars, styleVars,
                   parseVars, walkVars, searchVars>>

\* setAddAriaRole and the render after it: a dependency of useMemo changed,
\* `built` is computed again
SetAddAriaRoleBuild(tape) ==
    /\ outputs # <<>> /\ Len(outputs) < MaxBuilds
    /\ addAriaRole' = ~addAriaRole
    /\ UNCHANGED <<cols, rows, includeHead, includeFoot, wrapInSection,
                   useThInHead, classVars, csvVars, viewVars, styleVars,
                   parseVars, walkVars, searchVars>>
    /\ outputs' = Append(outputs, BuildOutput(tape)')

\* setTableClass with a new value and the render after it
SetTableClassBuild(s, tape) ==
    /\ outputs # <<>> /\ Len(outputs) < MaxBuilds
    /\ s # tableClass
    /\ tableClass' = s
    /\ UNCHANGED <<theadClass, tbodyClass, tfootClass, cellClass, rowClass,
                   structVars, csvVars, viewVars, styleVars, parseVars,
                   walkVars, searchVars>>
    /\ outputs' = Append(outputs, BuildOutput(tape)')

NextBuilds ==
    \/ \E tape \in RandomTapes : FirstBuild(tape)
    \/ \E tape \in RandomTapes : SetAddAriaRoleBuild(tape)
    \/ \E s \in CellClassStrings, tape \in RandomTapes :
          SetTableClassBuild(s, tape)

SpecBuilds == InitBuilds /\ [][NextBuilds]_vars

-----------------------------------------------------------------------------
(* TablePreview given an envelope from outside (table-preview.tsx 71-154) *)

Nid(k) == <<"n_", k>>
Tid(k) == <<"t_", k>>

\* an element node with its children
Elem(id, tag, children) ==
    [makeDomNode(id, tag, <<>>, <<>>) EXCEPT !.children = children]

RECURSIVE Concat(_)
\* the sequences of a sequence, one after the other
Concat(seqs) == IF seqs = <<>> THEN <<>> ELSE Head(seqs) \o Concat(Tail(seqs))

\* what hangs below a cell
CellShapes ==
    {"none", "text", "emptyText", "span", "emptyThenText",
     "spanEmptyThenText", "spanThenText", "dangling"}

\* the child ids of cell number k of a shape and the nodes below the cell;
\* v is the text of the section the cell is in
CellContent(k, shape, v) ==
    CASE shape = "text" ->
           [kids |-> <<Tid(10 * k + 1)>>,
            nodes |-> <<makeTextNode(Tid(10 * k + 1), v)>>]
      [] shape = "emptyText" ->
           [kids |-> <<Tid(10 * k + 1)>>,
            nodes |-> <<makeTextNode(Tid(10 * k + 1), <<>>)>>]
      [] shape = "span" ->
           [kids |-> <<Nid(10 * k + 1)>>,
            nodes |-> <<Elem(Nid(10 * k + 1), "span", <<Tid(10 * k + 2)>>),
                        makeTextNode(Tid(10 * k + 2), v)>>]
      [] shape = "emptyThenText" ->
           [kids |-> <<Tid(10 * k + 1), Tid(10 * k + 2)>>,
            nodes |-> <<makeTextNode(Tid(10 * k + 1), <<>>),
                        makeTextNode(Tid(10 * k + 2), <<"y">>)>>]
      [] shape = "spanEmptyThenText" ->
           [kids |-> <<Nid(10 * k + 1), Tid(10 * k + 3)>>,
            nodes |-> <<Elem(Nid(10 * k + 1), "span", <<Tid(10 * k + 2)>>),
                        makeTextNode(Tid(10 * k + 2), <<>>),
                        makeTextNode(Tid(10 * k + 3), <<"y">>)>>]
      [] shape = "spanThenText" ->
           [kids |-> <<Nid(10 * k + 1), Tid(10 * k + 3)>>,
            nodes |-> <<Elem(Nid(10 * k + 1), "span", <<Tid(10 * k + 2)>>),
                        makeTextNode(Tid(10 * k + 2), v),
                        makeTextNode(Tid(10 * k + 3), <<"y">>)>>]
      [] shape = "dangling" ->
           [kids |-> <<Tid(10 * k + 9)>>, nodes |-> <<>>]
      [] OTHER -> [kids |-> <<>>, nodes |-> <<>>]

\* the nodes of row number k: the row element of tag `tag` over one cell
\* per shape, and what hangs below the cells
RowNodes(k, row, cellTag, v) ==
    LET cells == [c \in 1..Len(row.cells) |->
                    CellContent(10 * k + c, row.cells[c], v)]
    IN <<Elem(Nid(k), row.tag,
              [c \in 1..Len(row.cells) |-> Nid(10 * k + c)])>>
       \o Concat([c \in 1..Len(row.cells) |->
                    <<Elem(Nid(10 * k + c), cellTag, cells[c].kids)>>
                    \o cells[c].nodes])

\* the nodes of section number s: <<>> for no section, <<rows>> for a
\* section element over the rows
SectionNodes(s, tag, cellTag, sec, v) ==
    IF sec = <<>> THEN <<>>
    ELSE <<Elem(Nid(s), tag, [r \in 1..Len(sec[1]) |-> Nid(10 * s + r)])>>
         \o Concat([r \in 1..Len(sec[1]) |->
                      RowNodes(10 * s + r, sec[1][r], cellTag, v)])

\* a node array: a table (or a div in its place) over the sections given
Graph(topTag, head, body, foot) ==
    <<Elem(Nid(0), topTag,
           (IF head = <<>> THEN <<>> ELSE <<Nid(1)>>)
           \o (IF body = <<>> THEN <<>> ELSE <<Nid(2)>>)
           \o (IF foot = <<>> THEN <<>> ELSE <<Nid(3)>>))>>
    \o SectionNodes(1, "thead", "th", head, <<"h">>)
    \o SectionNodes(2, "tbody", "td", body, <<"b">>)
    \o SectionNodes(3, "tfoot", "td", foot, <<"f">>)

Tr(cells) == [tag |-> "tr", cells |-> cells]

\* the rows of a body: none, one row of no, one or two cells, two rows
BodyRowLists ==
    {<<>>, <<Tr(<<>>)>>, <<Tr(<<"text", "span">>)>>,
     <<Tr(<<"text">>), Tr(<<"span">>)>>}
    \cup {<<Tr(<<shape>>)>> : shape \in CellShapes}

BodySections == {<<>>} \cup {<<trs>> : trs \in BodyRowLists}

\* head sections: none, one of no row, of a child that is no tr, of one row
\* of no cell, of one row, of two rows
HeadSections ==
    {<<>>, << <<>> >>, << <<[tag |-> "div", cells |-> <<"text">>]>> >>,
     << <<Tr(<<>>)>> >>, << <<Tr(<<"text">>)>> >>,
     << <<Tr(<<"span">>), Tr(<<"text">>)>> >>}

FootSections == {<<>>, << <<Tr(<<"text">>)>> >>}

\* node arrays of tables, and of the same nodes under a div
Graphs ==
    {Graph("table", h, b, f) :
        h \in HeadSections, b \in BodySections, f \in FootSections}
    \cup {Graph("div", << <<Tr(<<"text">>)>> >>, b, <<>>) :
            b \in BodySections}

\* values of the json prop
Envelopes ==
    {AbsentJson, BadText}
    \cup {Envelope(form, FALSE, NoNodes) : form \in {"text", "object"}}
    \cup {Envelope(form, TRUE, n) :
            form \in {"text", "object"},
            n \in {NoNodes, NodeArray(<<>>), NodeText(<<>>),
                   NodeText(<<"a", "b">>), NodeArray(<<JsNull>>)}}
    \cup {Envelope("text", TRUE, NodeArray(g)) : g \in Graphs}
    \cup {Envelope("text", TRUE, NodeArray(Append(g, JsNull))) :
            g \in {Graph("table", <<>>, b, <<>>) : b \in BodySections}}

\* a render of TablePreview with the json prop j: extracted is computed, and
\* the effect sets localRows to basisRows; a render that throws sets nothing
RenderPreview(j) ==
    /\ json' = j
    /\ extractOut' = extractEnvelope(j)
    /\ localRows' = IF extractOut'.outcome = "throw" THEN localRows
                    ELSE extractOut'.rows
    /\ UNCHANGED <<treeSearch, expandMode, open,
                   structVars, classVars, csvVars, styleVars,
                   parseVars, buildVars, walkVars, searchVars>>

\* TablePreview as the builder page renders it: json={built.json}
RenderBuiltPreview ==
    RenderPreview(Envelope("text", TRUE, NodeArray(built.nodes)))

NextExtract == \E j \in Envelopes : RenderPreview(j)

SpecExtract == Init /\ [][NextExtract]_vars

-----------------------------------------------------------------------------
(* The text of a cell, as built and as read (App.jsx 641-656,               *)
(* table-preview.tsx 52-65)                                                 *)

\* envelopes of a table of one body row of one cell, one per cell shape
CellEnvelopes ==
    {Envelope("text", TRUE,
              NodeArray(Graph("table", <<>>, << <<Tr(<<shape>>)>> >>, <<>>))) :
        shape \in CellShapes}

NextCells ==
    \/ \E j \in CellEnvelopes : RenderPreview(j)
    \/ RenderBuiltPreview
    \/ SetUseSpanFallback
    \/ \E text \in SampleTexts : HandleCsvFile(text)
    \/ ClearCsv
    \/ SetIncludeHead
    \/ SetIncludeFoot
    \/ SetCsvHasHeaderRow

SpecCells == Init /\ [][NextCells]_vars

-----------------------------------------------------------------------------
(* DomTreePreview over given nodes: matchSet and ancestorSet (App.jsx 148-193) *)

MaxNodes == 3

\* the node sequences of MaxNodes nodes with at most one parent each:
\* par[k] is the index of the node that lists node k as a child, 0 for none;
\* chains, forests, self-parents and cycles of parents are all among them
GivenGraphs ==
    {[i \in 1..MaxNodes |->
         Elem(Nid(i), tags[i],
              LET cs == SelectSeq([k \in 1..MaxNodes |-> k],
                                  LAMBDA k : par[k] = i)
              IN [k \in 1..Len(cs) |-> Nid(cs[k])])] :
       <<par, tags>> \in [1..MaxNodes -> 0..MaxNodes]
                         \X [1..MaxNodes -> {"td", "tr"}]}

InitWalk ==
    /\ InitApp /\ IdleTree /\ IdlePreview /\ IdleStyle /\ IdleParse
    /\ IdleBuilds
    /\ givenNodes \in GivenGraphs
    /\ IdleSearch
    /\ ancestors = NotWalked

\* <DomTreePreview nodes={givenNodes} styles={[]} searchQuery={s} />
SearchGiven(s) ==
    /\ givenNodes # <<>>
    /\ treeSearch' = s
    /\ ancestors' =
         Let([nodes |-> givenNodes, styles |-> <<>>], LAMBDA p :
           [computed |-> TRUE,
            match    |-> matchSet(p, q(s)),
            set      |-> ancestorSet(p, q(s))])
    /\ UNCHANGED <<expandMode, open, localRows, json, extractOut, givenNodes,
                   structVars, classVars, csvVars, styleVars, parseVars,
                   buildVars, searchVars>>

NextWalk == \E s \in TreeQueries : SearchGiven(s)

SpecWalk == InitWalk /\ [][NextWalk]_vars

-----------------------------------------------------------------------------
(* One call getTextFromNode(cell, indexById), call by call
   (table-preview.tsx 52-65, 117-119) *)

MaxBelow == 2
StackLimit == 4

\* the child ids a node may list: the nodes below the cell, and one id of
\* no node
ChildIds == {Nid(k) : k \in 1..(MaxBelow + 1)}
ChildLists == {<<>>} \cup {<<a>> : a \in ChildIds}
                     \cup {<<a, b>> : a, b \in ChildIds}

\* what a node below the cell is: a text node, empty or not, or an element
BelowKinds ==
    {[text |-> TRUE, v |-> v, cs |-> <<>>] : v \in {<<>>, <<"a">>}}
        \cup {[text |-> FALSE, v |-> <<>>, cs |-> cs] : cs \in ChildLists}

BelowNode(k, kind) ==
    IF kind.text THEN makeTextNode(Nid(k), kind.v)
    ELSE Elem(Nid(k), "span", kind.cs)

\* a node array: a cell first, then the nodes below it, with children
\* references of any kind (dangling, shared, cyclic)
SearchGraph(cs, kinds) ==
    <<Elem(Nid(0), "td", cs)>> \o [k \in 1..MaxBelow |-> BelowNode(k, kinds[k])]

\* indexById.get(id): <<node>>, or <<>> for undefined
IndexGet(nodes, id) ==
    IF HasId(nodes, id) THEN <<GetById(nodes, id)>> ELSE <<>>

\* the frame of a call just made
Frame(node) == [node |-> node, k |-> 0]

Top == search.stack[Len(search.stack)]
Popped == SubSeq(search.stack, 1, Len(search.stack) - 1)

\* getTextFromNode(cell, indexById) called from readSectionRows
InitSearch ==
    /\ InitApp /\ IdleTree /\ IdlePreview /\ IdleStyle /\ IdleParse
    /\ IdleBuilds /\ IdleWalk
    /\ \E cs \in ChildLists, kinds \in [1..MaxBelow -> BelowKinds] :
          search = [nodes |-> SearchGraph(cs, kinds),
                    stack |-> <<Frame(<<Elem(Nid(0), "td", cs)>>)>>,
                    ret |-> <<>>, status |-> "running", result |-> <<>>]

\* the head of a call: if (!node) return ""; if (node.text) return ...
SearchEnter ==
    /\ search.status = "running" /\ search.ret = <<>>
    /\ search.stack # <<>> /\ Top.k = 0
    /\ search' =
         IF Top.node = <<>>
         THEN [search EXCEPT !.stack = Popped, !.ret = << <<>> >>]
         ELSE IF Top.node[1].text
         THEN [search EXCEPT !.stack = Popped, !.ret = <<Top.node[1].v>>]
         ELSE [search EXCEPT !.stack[Len(search.stack)].k = 1]
    /\ UNCHANGED <<structVars, classVars, csvVars, viewVars, styleVars,
                   parseVars, buildVars, walkVars>>

\* the for loop at child k: the call on the child, or return "" after the
\* last child; a call with the stack full ends the whole run with RangeError
SearchLoop ==
    /\ search.status = "running" /\ search.ret = <<>>
    /\ search.stack # <<>> /\ Top.k >= 1
    /\ search' =
         IF Top.k > Len(Top.node[1].children)
         THEN [search EXCEPT !.stack = Popped, !.ret = << <<>> >>]
         ELSE IF Len(search.stack) >= StackLimit
         THEN [search EXCEPT !.stack = <<>>, !.status = "RangeError"]
         ELSE [search EXCEPT !.stack =
                 Append(@, Frame(IndexGet(search.nodes,
                                          Top.node[1].children[Top.k])))]
    /\ UNCHANGED <<structVars, classVars, csvVars, viewVars, styleVars,
                   parseVars, buildVars, walkVars>>

\* a call returned t: `if (t) return t`, else the next child; the return of
\* the first call ends the run
SearchResume ==
    /\ search.status = "running" /\ search.ret # <<>>
    /\ search' =
         IF search.stack = <<>>
         THEN [search EXCEPT !.status = "returned", !.result = search.ret[1],
                             !.ret = <<>>]
         ELSE IF search.ret[1] # <<>>
         THEN [search EXCEPT !.stack = Popped]
         ELSE [search EXCEPT !.stack[Len(search.stack)].k = @ + 1,
                             !.ret = <<>>]
    /\ UNCHANGED <<structVars, classVars, csvVars, viewVars, styleVars,
                   parseVars, buildVars, walkVars>>

NextSearch == SearchEnter \/ SearchLoop \/ SearchResume

SpecSearch == InitSearch /\ [][NextSearch]_vars

\* the call runs on: JavaScript runs a function to its end
SpecSearchRun == SpecSearch /\ WF_vars(NextSearch)

-----------------------------------------------------------------------------
(* Editing a cell of the preview (App.jsx 1173-1181,                        *)
(* table-preview.tsx 146-171)                                               *)

MaxShown == 4

\* what is typed into a cell
EditValues == {<<"z">>}

\* grids loaded from a file before the edits
EditGrids ==
    {parseCSV(<<"a", COMMA, "b", LF, "c">>), parseCSV(<<"a", LF, "b">>)}

\* builder states reached with the form: manual dimensions or a loaded grid,
\* the head, the foot and the header-row switch on or off; TablePreview not
\* yet rendered
InitEdit ==
    /\ cols \in 1..2 /\ rows \in 1..2
    /\ includeHead \in BOOLEAN /\ includeFoot \in BOOLEAN
    /\ wrapInSection = FALSE
    /\ tableClass = <<>> /\ theadClass = <<>> /\ tbodyClass = <<>>
    /\ tfootClass = <<>> /\ cellClass = <<>> /\ rowClass = <<>>
    /\ useThInHead = TRUE /\ addAriaRole = TRUE
    /\ \/ csvText = <<>> /\ csvData = NullCsv
       \/ \E g \in EditGrids : csvText = stringifyCSV(g) /\ csvData = Grid(g)
    /\ csvHasHeaderRow \in BOOLEAN /\ useSpanFallback = FALSE
    /\ treeSearch = <<>> /\ expandMode = "auto"
    /\ IdleTree /\ IdlePreview /\ IdleStyle /\ IdleParse /\ IdleBuilds
    /\ IdleWalk /\ IdleSearch

\* the first render of TablePreview on the builder page
MountPreview ==
    /\ json = AbsentJson
    /\ RenderBuiltPreview

\* handleChange's next grid: prev.map(r => r.slice()); next[ri][ci] = value
Edited(g, ri, ci, value) == [g EXCEPT ![ri][ci] = value]

\* the input of cell (ri, ci) of localRows changed to value: handleChange,
\* the effect calling onEdit(localRows) (setCsvData, setCsvText), the build
\* run again, and TablePreview rendered with the new built.json
EditCell(ri, ci, value) ==
    /\ json # AbsentJson
    /\ Len(localRows) <= MaxShown
    /\ ri \in 1..Len(localRows) /\ ci \in 1..Len(localRows[ri])
    /\ csvData' = Grid(Edited(localRows, ri, ci, value))
    /\ csvText' = stringifyCSV(Edited(localRows, ri, ci, value))
    /\ UNCHANGED <<csvHasHeaderRow, useSpanFallback, treeSearch, expandMode,
                   open, structVars, classVars, styleVars, parseVars,
                   buildVars, walkVars, searchVars>>
    /\ json' = Envelope("text", TRUE, NodeArray(built'.nodes))
    /\ extractOut' = extractEnvelope(json')
    /\ localRows' = extractOut'.rows

EditSomeCell ==
    \E ri \in 1..MaxShown, ci \in 1..2, value \in EditValues :
        EditCell(ri, ci, value)

NextEdit == MountPreview \/ EditSomeCell

SpecEdit == InitEdit /\ [][NextEdit]_vars

-----------------------------------------------------------------------------
(* One call of parseCSV, pass by pass of the while loop (App.jsx 251-311) *)

MaxText == 4

\* a plain character and the characters parseCSV tests for
ParseChars == {"a", QUOTE, COMMA, LF, CR}

\* the input texts: every short text, and the CSV files
Texts == UNION {[1..n -> ParseChars] : n \in 0..MaxText} \cup SampleTexts

\* parseCSV(input) entered: the locals set, the loop not yet begun
InitParse ==
    /\ InitApp /\ IdleTree /\ IdlePreview /\ IdleStyle /\ IdleBuilds
    /\ IdleWalk /\ IdleSearch
    /\ parse \in {[input |-> t, s |-> ParseInit, out |-> <<>>,
                   running |-> TRUE] : t \in Texts}

\* one pass of `while (i < input.length)`
ParseLoopPass ==
    /\ parse.running
    /\ parse.s.i <= Len(parse.input)
    /\ parse' = [parse EXCEPT !.s = ParseStep(parse.input, parse.s)]
    /\ UNCHANGED <<structVars, classVars, csvVars, viewVars, styleVars,
                   buildVars, walkVars, searchVars>>

\* the loop left: the flush and `return rows`
ParseReturn ==
    /\ parse.running
    /\ parse.s.i > Len(parse.input)
    /\ parse' = [parse EXCEPT !.out = <<ParseFlush(parse.s)>>,
                              !.running = FALSE]
    /\ UNCHANGED <<structVars, classVars, csvVars, viewVars, styleVars,
                   buildVars, walkVars, searchVars>>

NextParse == ParseLoopPass \/ ParseReturn

SpecParse == InitParse /\ [][NextParse]_vars

\* the call runs on: JavaScript runs a function to its end
SpecParseRun == SpecParse /\ WF_vars(NextParse)

-----------------------------------------------------------------------------
(* Properties of the builder and the extractor *)

IsRectangular(g) == \A i, j \in 1..Len(g) : Len(g[i]) = Len(g[j])

\* the tag of the node a child id names
ChildTag(payload, id) ==
    IF HasId(payload.nodes, id)
    THEN normalizeTag(GetById(payload.nodes, id)) ELSE "(dangling)"

\* the tags of the children of the table node, in order
TableChildTags ==
    LET p == built
        t == tableNode(p)[1]
    IN [k \in 1..Len(t.children) |-> ChildTag(p, t.children[k])]

RECURSIVE Dedup(_, _)
\* the elements of a sequence once each, in first-seen order
Dedup(seq, seen) ==
    IF seq = <<>> THEN <<>>
    ELSE IF Head(seq) \in seen THEN Dedup(Tail(seq), seen)
    ELSE <<Head(seq)>> \o Dedup(Tail(seq), seen \cup {Head(seq)})

\* the distinct class tokens of a class string
DistinctTokens(str) ==
    Dedup(SelectSeq(FlatTokens(ClassList(str)), LAMBDA n : n # <<>>), {})

\* a row of no cell is written as an empty line, and an empty line read last
\* is dropped: the grids whose shape the codec keeps
KeepsShape(g) ==
    /\ \A r \in 1..Len(g) : Len(g[r]) >= 1
    /\ g # <<>> => g[Len(g)] # <<EmptyStr>>

\* C1 as stated, for the grids whose rows have a cell each: parsing the text
\* written for any grid but the empty grid and the grid of one empty cell
\* gives the grid back
C1_RoundTripAllGrids ==
    [][ ( /\ HandleCsvTextPaste
          /\ ~csvData.isNull
          /\ csvText = stringifyCSV(csvData.rows)
          /\ \A r \in 1..Len(csvData.rows) : Len(csvData.rows[r]) >= 1
          /\ csvData.rows \notin {<<>>, << <<EmptyStr>> >>} )
        => csvData' = csvData ]_vars

\* C1: parsing the text written for a grid gives the grid back, for every
\* grid whose rows have at least one cell each and whose last row is not the
\* single empty cell
C1_RoundTripKeptShape ==
    [][ ( /\ HandleCsvTextPaste
          /\ ~csvData.isNull
          /\ csvText = stringifyCSV(csvData.rows)
          /\ KeepsShape(csvData.rows) )
        => csvData' = csvData ]_vars

C1_Witness ==
    /\ ~csvData.isNull
    /\ localRows = << << <<QUOTE>>, <<COMMA>> >>, << <<LF>> >> >>
    /\ csvText = <<QUOTE, QUOTE, QUOTE, QUOTE, COMMA, QUOTE, COMMA, QUOTE,
                   LF, QUOTE, LF, QUOTE>>
    /\ csvData.rows = parseCSV(csvText)
    /\ csvData.rows = localRows

\* C2: with a source grid, no span fallback and no footer, extracting the
\* built envelope returns the rows of the grid, whatever the other settings;
\* stated for the grids that are not empty and have rows of one length
C2_ExtractBuildIsGrid ==
    ( /\ ~csvData.isNull /\ ~useSpanFallback /\ ~includeFoot
      /\ csvData.rows # <<>> /\ IsRectangular(csvData.rows) )
    => LET e == extracted IN ~e.isNull /\ e.rows = csvData.rows

\* C3: a non-empty rectangular parsed grid built with its first row as the
\* header comes back with hasHeader, row 0 as the one head row and the other
\* rows as the body rows
C3_HeaderGridRoundTrip ==
    ( /\ ~csvData.isNull
      /\ csvData.rows = parseCSV(csvText)
      /\ csvData.rows # <<>>
      /\ IsRectangular(csvData.rows)
      /\ csvHasHeaderRow /\ includeHead
      /\ ~useSpanFallback /\ ~includeFoot )
    => LET p == built
           e == extractRowsFromXscp(p)
       IN /\ ~e.isNull
          /\ e.hasHeader
          /\ e.rows = csvData.rows
          /\ headRows(p) = <<csvData.rows[1]>>
          /\ bodyRows(p) = Tail(csvData.rows)

C3_Witness ==
    /\ ~csvData.isNull
    /\ csvText = <<"a", COMMA, "b", LF, "c", COMMA, "d", LF>>
    /\ csvData.rows = << << <<"a">>, <<"b">> >>, << <<"c">>, <<"d">> >> >>
    /\ csvHasHeaderRow /\ includeHead /\ ~useSpanFallback /\ ~includeFoot
    /\ extracted.hasHeader
    /\ extracted.rows = csvData.rows

\* C4: the table node's classes hold the style id of each distinct token of
\* tableClass exactly once, in first-seen order, and each token has exactly
\* one Style record
C4_ClassesOncePerToken ==
    LET p == built
        t == tableNode(p)[1]
        toks == DistinctTokens(tableClass)
    IN /\ \A k \in 1..Len(toks) :
             Cardinality({i \in 1..Len(p.styles) :
                            p.styles[i].name = toks[k]}) = 1
       /\ Len(t.classes) = Len(toks)
       /\ \A k \in 1..Len(toks) :
             \E i \in 1..Len(p.styles) :
                /\ p.styles[i].name = toks[k]
                /\ k <= Len(t.classes)
                /\ p.styles[i]._id = t.classes[k]

\* a name of white space only, the empty name included
IsBlank(name) == \A i \in 1..Len(name) : IsSpace(name[i])

\* C5: a call of ensureStyle returns the id the earlier calls with the same
\* name returned, leaves at most one Style record per name, and for a blank
\* name returns null and appends nothing
C5_EnsureStyleStable ==
    [][ \A name \in StyleNames :
          EnsureStyleCall(name) =>
            /\ name \in DOMAIN ret => ret'[name].id = ret[name].id
            /\ \A i, j \in 1..Len(styles') :
                  styles'[i].name = styles'[j].name => i = j
            /\ IsBlank(name) => (ret'[name].id = NullId /\ styles' = styles)
            /\ ~IsBlank(name) =>
                  \E i \in 1..Len(styles') :
                     /\ styles'[i].name = name
                     /\ styles'[i]._id = ret'[name].id ]_vars

C5_Witness ==
    /\ <<"a">> \in DOMAIN ret /\ ret[<<"a">>].calls = 2
    /\ <<"b">> \in DOMAIN ret
    /\ <<SPACE>> \in DOMAIN ret /\ ret[<<SPACE>>].id = NullId
    /\ <<>> \in DOMAIN ret /\ ret[<<>>].id = NullId
    /\ Len(styles) = 2
    /\ ret[<<"a">>].id # ret[<<"b">>].id

\* C6: the children of the table are thead (if included), tbody, tfoot (if
\* included), in this order and nothing else
C6_SectionOrder ==
    TableChildTags =
        (IF includeHead THEN <<"thead">> ELSE <<>>)
        \o <<"tbody">>
        \o (IF includeFoot THEN <<"tfoot">> ELSE <<>>)

C6_Witness ==
    /\ includeHead /\ includeFoot
    /\ TableChildTags = <<"thead", "tbody", "tfoot">>

\* C7: every child id of every node names a node of the build and every class
\* id names a Style record of the build
C7_NoDanglingIds ==
    LET p == built IN
    \A i \in 1..Len(p.nodes) :
        /\ \A k \in 1..Len(p.nodes[i].children) :
              HasId(p.nodes, p.nodes[i].children[k])
        /\ \A k \in 1..Len(p.nodes[i].classes) :
              \E j \in 1..Len(p.styles) :
                 p.styles[j]._id = p.nodes[i].classes[k]

C7_Witness ==
    LET p == built IN
    /\ wrapInSection /\ ~csvData.isNull /\ useSpanFallback
    /\ tableClass # <<>> /\ cellClass # <<>>
    /\ csvData.rows # <<>>
    /\ \E i \in 1..Len(p.nodes) :
          /\ p.nodes[i].data.tag = "span"
          /\ Len(p.nodes[i].children) = 1
    /\ \E i \in 1..Len(p.nodes) :
          /\ p.nodes[i].data.tag = "td"
          /\ Len(p.nodes[i].classes) = 1
          /\ Len(p.nodes[i].children) = 1

\* C8: with a source grid and a footer, no footer cell holds a text of the
\* grid: every footer cell reads as the empty string
C8_FooterTextless ==
    (~csvData.isNull /\ includeFoot)
    => LET f == footerRows(built) IN
       \A r \in 1..Len(f) : \A c \in 1..Len(f[r]) : f[r][c] = <<>>

RECURSIVE Descendants(_, _)
\* the ids below node id in the graph
Descendants(nodes, id) ==
    LET cs == indexById(nodes, id).children
        kids == {cs[k] : k \in 1..Len(cs)}
    IN kids \cup UNION {Descendants(nodes, c) : c \in kids}

C10_ManualGridExtract ==
    (csvData.isNull /\ includeHead /\ ~includeFoot)
    => LET e == extracted IN
       /\ ~e.isNull
       /\ e.hasHeader
       /\ Len(e.rows) = rows + 1
       /\ \A r \in 1..Len(e.rows) :
             /\ Len(e.rows[r]) = cols
             /\ \A c \in 1..Len(e.rows[r]) : e.rows[r][c] = <<>>

C10_Witness ==
    /\ csvData.isNull /\ includeHead /\ ~includeFoot
    /\ cols = 2 /\ rows = 1
    /\ extracted.hasHeader
    /\ extracted.rows = << << <<>>, <<>> >>, << <<>>, <<>> >> >>

\* the nodes an envelope holds, <<>> where it holds none
ItemsOf(j) ==
    IF j.hasPayload /\ j.nodes.kind = "array" THEN j.nodes.items ELSE <<>>

\* C11: extract returns null, and does not throw, for an absent envelope, a
\* string that does not parse, a payload without nodes and nodes without a
\* table-tagged node; for every other envelope it returns {rows, hasHeader}
C11_NullOrRows ==
    extractOut.outcome # "none"
    => LET tabled == \E i \in 1..Len(ItemsOf(json)) :
                        /\ ItemsOf(json)[i] # JsNull
                        /\ normalizeTag(ItemsOf(json)[i]) = "table"
       IN IF json.form = "absent" \/ ~json.parses \/ ~tabled
          THEN extractOut.outcome = "null"
          ELSE extractOut.outcome = "rows"

\* a grid of strings over the characters of the text parsed
IsGrid(g) ==
    \A r \in 1..Len(g) : \A c \in 1..Len(g[r]) : \A k \in 1..Len(g[r][c]) :
        g[r][c][k] \in {parse.input[j] : j \in 1..Len(parse.input)}

\* C12: for every text the loop of parseCSV ends, every pass moves on in the
\* text, and the call returns a grid with every character consumed
C12_ParseTotal ==
    /\ <>(~parse.running)
    /\ [][ParseLoopPass => parse'.s.i > parse.s.i]_vars
    /\ [](~parse.running =>
            /\ parse.out # <<>>
            /\ IsGrid(parse.out[1])
            /\ parse.out[1] = parseCSV(parse.input)
            /\ parse.s.i = Len(parse.input) + 1)

C12_Witness ==
    /\ ~parse.running
    /\ parse.input = <<QUOTE, "a", CR, LF>>
    /\ parse.s.inQuotes
    /\ parse.out = << << << <<"a", CR, LF>> >> >> >>

\* C13: once the tree is rendered, every node is open in mode all, closed in
\* mode collapse, and in mode auto open iff it matches the query, has a match
\* below it, or is a root
C13_OpenFollowsMode ==
    open # <<>>
    => LET p == built
           m == matchSet(p, q(treeSearch))
       IN \A id \in DOMAIN open :
            open[id] =
              IF expandMode = "all" THEN TRUE
              ELSE IF expandMode = "collapse" THEN FALSE
              ELSE \/ id \in m
                   \/ Descendants(p.nodes, id) \cap m # {}
                   \/ parentById(p.nodes, id) = <<>>

\* the node ids and style ids of a payload
IdsOf(payload) ==
    {payload.nodes[i]._id : i \in 1..Len(payload.nodes)}
    \cup {payload.styles[i]._id : i \in 1..Len(payload.styles)}

\* every build starts from empty collections: its payload holds the two
\* nodes of the table and one Style record per class token of its own
BuildsStartEmpty ==
    \A i \in 1..Len(outputs) :
       /\ Len(outputs[i].payload.nodes) = 2
       /\ [k \in 1..Len(outputs[i].payload.styles) |->
             outputs[i].payload.styles[k].name]
          = DistinctTokens(outputs[i].tableClass)

\* a build leaves the outputs of the builds before it as they are
BuildsKeepOutputs ==
    [][\A i \in 1..Len(outputs) :
          Len(outputs') >= i /\ outputs'[i] = outputs[i]]_vars

\* the ids of a payload differ from each other
DistinctIds(payload) ==
    Cardinality(IdsOf(payload)) = Len(payload.nodes) + Len(payload.styles)

\* C14: no node id or style id of a build occurs in the output of another
\* build, for builds whose own ids differ from each other (the builds start
\* from empty collections and leave the earlier outputs as they are:
\* BuildsStartEmpty, BuildsKeepOutputs)
C14_BuildsShareNoId ==
    \A i, j \in 1..Len(outputs) :
       ( /\ i # j
         /\ DistinctIds(outputs[i].payload)
         /\ DistinctIds(outputs[j].payload) )
       => IdsOf(outputs[i].payload) \cap IdsOf(outputs[j].payload) = {}

\* the cell holds one of the characters
ContainsAny(cell, chars) == \E i \in 1..Len(cell) : cell[i] \in chars

\* the text of a grid in which the cells holding one of the characters are
\* wrapped in quotes with their quotes doubled and the other cells are as
\* they are, the cells of a row joined by commas and the rows by one LF
WrittenAs(g, chars) ==
    Join([r \in 1..Len(g) |->
            Join([c \in 1..Len(g[r]) |->
                    IF ContainsAny(g[r][c], chars)
                    THEN <<QUOTE>>
                         \o Concat([i \in 1..Len(g[r][c]) |->
                                      IF g[r][c][i] = QUOTE
                                      THEN <<QUOTE, QUOTE>>
                                      ELSE <<g[r][c][i]>>])
                         \o <<QUOTE>>
                    ELSE g[r][c]],
                 <<COMMA>>)],
         <<LF>>)

\* C15 as stated, a newline being LF: the text written for a grid wraps the
\* cells that hold a quote, a comma or LF, and no other cell
C15_QuotedIffQuoteCommaLF ==
    [][OnEdit => csvText' = WrittenAs(localRows, {QUOTE, COMMA, LF})]_vars

\* C15: the text written for a grid wraps, with the quotes doubled, the cells
\* that hold a quote, a comma, LF or CR, and no other cell; cells are joined
\* by commas and rows by one LF, with nothing after the last row
C15_QuotedIffQuoteCommaLFCR ==
    [][OnEdit => csvText' = WrittenAs(localRows, {QUOTE, COMMA, LF, CR})]_vars

C15_Witness ==
    /\ localRows = << << <<QUOTE>>, <<"a">> >>, << <<CR>> >> >>
    /\ csvData = Grid(localRows)
    /\ csvText = <<QUOTE, QUOTE, QUOTE, QUOTE, COMMA, "a", LF,
                   QUOTE, CR, QUOTE>>

\* the tr nodes of the table's section of a tag, in order
SectionRows(p, tag) ==
    IF SectionOf(p, tag) = <<>> THEN <<>>
    ELSE Resolve(p.nodes, SectionOf(p, tag)[1].children)

\* the value of the text node a cell holds, straight below it or below its
\* span; <<"(none)">> for a cell that holds no text node
HeldText(p, cell) ==
    IF Len(cell.children) # 1 \/ ~HasId(p.nodes, cell.children[1])
    THEN <<"(none)">>
    ELSE LET k == GetById(p.nodes, cell.children[1]) IN
         IF k.text THEN k.v
         ELSE IF k.data.tag = "span" /\ Len(k.children) = 1
                 /\ HasId(p.nodes, k.children[1])
                 /\ GetById(p.nodes, k.children[1]).text
         THEN GetById(p.nodes, k.children[1]).v
         ELSE <<"(none)">>

\* the text of cell c of row k of the grid (from 1), the empty string where
\* the grid has no such cell
GridText(g, k, c) ==
    IF k \in 1..Len(g) /\ c \in 1..Len(g[k]) THEN g[k][c] ELSE <<>>

\* the texts the cells of a tr hold, cell by cell
RowTexts(p, tr) ==
    LET cells == Resolve(p.nodes, tr.children) IN
    [c \in 1..Len(cells) |-> HeldText(p, cells[c])]

\* C16: with a source grid every row has as many cells as the longest grid
\* row; cell c of the header row holds the text of grid row 0 cell c, and
\* cell c of body row r that of grid row r + 1 with a header row designated,
\* of grid row r without; where the grid has no such cell, the empty string
C16_CellsHoldGridTexts ==
    ~csvData.isNull
    => LET p == built
           g == csvData.rows
           n == IF MaxLen(g) > 0 THEN MaxLen(g) ELSE 0
           head == SectionRows(p, "thead")
           body == SectionRows(p, "tbody")
       IN /\ \A r \in 1..Len(head) :
               RowTexts(p, head[r]) = [c \in 1..n |-> GridText(g, r, c)]
          /\ \A r \in 1..Len(body) :
               RowTexts(p, body[r]) =
                 [c \in 1..n |->
                    GridText(g, IF csvHasHeaderRow THEN r + 1 ELSE r, c)]

C16_Witness ==
    LET p == built
        body == SectionRows(p, "tbody")
    IN /\ ~csvData.isNull
       /\ csvData.rows = << << <<"a">>, <<"b">> >>, << <<"c">> >> >>
       /\ includeHead /\ csvHasHeaderRow /\ useSpanFallback
       /\ Len(body) = 1
       /\ RowTexts(p, SectionRows(p, "thead")[1]) = << <<"a">>, <<"b">> >>
       /\ RowTexts(p, body[1]) = << <<"c">>, <<>> >>

\* the tr children of the table's section of a tag, in order
TrRows(p, tag) ==
    SelectSeq(SectionRows(p, tag), LAMBDA n : normalizeTag(n) = "tr")

\* C17: a returned result has hasHeader iff the thead child of the table has
\* a tr child; its rows are the rows of the tr children of thead followed by
\* those of the tr children of tbody (the latter alone without a header), and
\* no text of a tfoot row is among them
C17_HeadThenBody ==
    extractOut.outcome = "rows"
    => LET p == [nodes |-> ItemsOf(json)]
           head == TrRows(p, "thead")
           body == TrRows(p, "tbody")
       IN /\ extractOut.hasHeader = (Len(head) >= 1)
          /\ extractOut.rows =
               (IF extractOut.hasHeader
                THEN [r \in 1..Len(head) |-> ReadCells(p.nodes, head[r])]
                ELSE <<>>)
               \o [r \in 1..Len(body) |-> ReadCells(p.nodes, body[r])]
          /\ \A r \in 1..Len(extractOut.rows) :
                \A c \in 1..Len(extractOut.rows[r]) :
                   extractOut.rows[r][c] # <<"f">>
          /\ localRows = extractOut.rows

C17_Witness ==
    /\ json = Envelope("text", TRUE,
                NodeArray(Graph("table",
                   << <<Tr(<<"span">>), Tr(<<"text">>)>> >>,
                   << <<Tr(<<"text">>), Tr(<<"span">>)>> >>,
                   << <<Tr(<<"text">>)>> >>)))
    /\ extractOut.outcome = "rows"
    /\ extractOut.hasHeader
    /\ extractOut.rows =
         << << <<"h">> >>, << <<"h">> >>, << <<"b">> >>, << <<"b">> >> >>

RECURSIVE DfsTexts(_, _)
\* the values of the text nodes at and below a node, in depth-first child
\* order
DfsTexts(nodes, node) ==
    IF node.text THEN <<node.v>>
    ELSE Concat([k \in 1..Len(node.children) |->
                   IF HasId(nodes, node.children[k])
                   THEN DfsTexts(nodes, GetById(nodes, node.children[k]))
                   ELSE <<>>])

\* the first value of a sequence that is not the empty string, the empty
\* string if there is none
FirstNonEmpty(texts) ==
    LET full == SelectSeq(texts, LAMBDA t : t # <<>>) IN
    IF full = <<>> THEN <<>> ELSE full[1]

\* the rows of the tr children of a section, each cell read as the first
\* non-empty text below it
RowsByDfs(p, tag) ==
    LET trs == TrRows(p, tag) IN
    [r \in 1..Len(trs) |->
       LET cells == SelectSeq(Resolve(p.nodes, trs[r].children),
                       LAMBDA n : normalizeTag(n) \in {"td", "th"})
       IN [c \in 1..Len(cells) |-> FirstNonEmpty(DfsTexts(p.nodes, cells[c]))]]

\* C18: every cell of a returned result is the value of the first text node
\* with a non-empty value in the depth-first, child-order walk below the cell,
\* the empty string without one; and switching the span fallback changes
\* neither the rows nor hasHeader extracted from the build
C18_FirstTextSpanOrNot ==
    /\ [](extractOut.outcome = "rows" =>
            extractOut.rows =
              RowsByDfs([nodes |-> ItemsOf(json)], "thead")
              \o RowsByDfs([nodes |-> ItemsOf(json)], "tbody"))
    /\ [][SetUseSpanFallback =>
            extractRowsFromXscp(built') = extractRowsFromXscp(built)]_vars

C18_Witness ==
    /\ ~csvData.isNull /\ csvData.rows # <<>> /\ useSpanFallback
    /\ json = Envelope("text", TRUE, NodeArray(built.nodes))
    /\ extractOut.outcome = "rows"
    /\ \E r \in 1..Len(extractOut.rows) :
          \E c \in 1..Len(extractOut.rows[r]) : extractOut.rows[r][c] = <<"a">>

\* the nodes that list a node of `ids` as a child
ParentsOf(nodes, ids) ==
    {nodes[i]._id : i \in {j \in 1..Len(nodes) :
        \E k \in 1..Len(nodes[j].children) : nodes[j].children[k] \in ids}}

RECURSIVE UpTo(_, _, _)
\* the nodes reached from `ids` in 1..n steps of the child-to-parent map
UpTo(nodes, ids, n) ==
    IF n = 0 THEN {}
    ELSE ParentsOf(nodes, ids) \cup UpTo(nodes, ParentsOf(nodes, ids), n - 1)

\* the proper ancestors of the nodes of `ids`
ProperAncestors(nodes, ids) == UpTo(nodes, ids, Len(nodes))

PassRules ==
    LET s  == parse.s
        t  == parse'.s
        ch == parse.input[s.i]
        doubled == /\ ch = QUOTE /\ s.i + 1 <= Len(parse.input)
                   /\ parse.input[s.i + 1] = QUOTE
    IN
    /\ s.inQuotes /\ doubled =>
          /\ t.field = Append(s.field, QUOTE) /\ t.inQuotes
          /\ t.row = s.row /\ t.rows = s.rows /\ t.i = s.i + 2
    /\ s.inQuotes /\ ch \in {COMMA, LF, CR} =>
          /\ t.field = Append(s.field, ch) /\ t.inQuotes
          /\ t.row = s.row /\ t.rows = s.rows /\ t.i = s.i + 1
    /\ ~s.inQuotes /\ ch = COMMA =>
          /\ t.row = Append(s.row, s.field) /\ t.field = <<>>
          /\ t.rows = s.rows /\ ~t.inQuotes /\ t.i = s.i + 1
    /\ ~s.inQuotes /\ ch = LF =>
          /\ t.rows = Append(s.rows, Append(s.row, s.field))
          /\ t.row = <<>> /\ t.field = <<>> /\ ~t.inQuotes /\ t.i = s.i + 1
    /\ ~s.inQuotes /\ ch = CR =>
          /\ t.field = s.field /\ t.row = s.row /\ t.rows = s.rows
          /\ ~t.inQuotes /\ t.i = s.i + 1

RECURSIVE WithCRLF(_)
\* the text with every LF written as CR LF
WithCRLF(text) ==
    IF text = <<>> THEN <<>>
    ELSE (IF Head(text) = LF THEN <<CR, LF>> ELSE <<Head(text)>>)
         \o WithCRLF(Tail(text))

\* position k of the text lies in a quoted section: an odd number of quotes
\* stands before it
Quoted(text, k) ==
    Cardinality({j \in 1..(k - 1) : text[j] = QUOTE}) % 2 = 1

\* a line end of the text lies in a quoted section
LineEndQuoted(text) ==
    \E k \in 1..Len(text) : text[k] = LF /\ Quoted(text, k)

\* C20: in parseCSV, inside quotes a doubled quote adds one quote to the field
\* and comma, LF and CR are added literally; outside quotes comma ends the
\* field, LF ends the row and CR is dropped, so the text with CRLF line ends
\* parses to the same grid as the text with LF line ends
C20_CRLFSameAsLF ==
    /\ [][ParseLoopPass => PassRules]_vars
    /\ [](~parse.running =>
            parseCSV(WithCRLF(parse.input)) = parse.out[1])

\* C20 with the line ends kept out of quoted sections: a CR LF inside quotes
\* is two characters of the field
C20_CRLFSameAsLFUnquoted ==
    /\ [][ParseLoopPass => PassRules]_vars
    /\ [](~parse.running /\ ~LineEndQuoted(parse.input) =>
            parseCSV(WithCRLF(parse.input)) = parse.out[1])

\* a quoted comma and a line end outside quotes: one row of one field
C20_Witness ==
    /\ ~parse.running
    /\ parse.input = <<QUOTE, COMMA, QUOTE, LF>>
    /\ ~LineEndQuoted(parse.input)
    /\ parse.out = << << << <<COMMA>> >> >> >>
    /\ parseCSV(<<QUOTE, COMMA, QUOTE, CR, LF>>) = parse.out[1]

\* the row pending when the loop of parseCSV is left
PendingRow == Append(parse.s.row, parse.s.field)

\* the text ends with a newline
EndsWithLF(text) == text # <<>> /\ text[Len(text)] = LF

\* the flush emits the pending row iff it has more than one field or its one
\* field is non-empty, and a text ending with a newline gets no extra empty row
FlushRule ==
    LET out == parse.out[1] IN
    /\ out \in {parse.s.rows, Append(parse.s.rows, PendingRow)}
    /\ out = Append(parse.s.rows, PendingRow) <=>
          (Len(PendingRow) > 1 \/ PendingRow[1] # <<>>)
    /\ EndsWithLF(parse.input) => out # Append(parse.s.rows, << <<>> >>)
    /\ parse.input = <<"a", COMMA, "b", LF, "c", COMMA, "d", LF>> =>
          out = << << <<"a">>, <<"b">> >>, << <<"c">>, <<"d">> >> >>

\* C21: at end of input parseCSV emits the final row iff it has more than one
\* field or its single field is non-empty: a text ending with a newline
\* yields no extra empty row, and a text not ending with a newline still
\* yields its last row
C21_FlushLastRow ==
    ~parse.running =>
        /\ FlushRule
        /\ parse.input # <<>> /\ ~EndsWithLF(parse.input) =>
              parse.out[1] = Append(parse.s.rows, PendingRow)

\* C21 with the last row of a text not ending with a newline yielded unless
\* it is one empty field (after a trailing CR or an empty quoted field)
C21_FlushLastRowUnlessEmpty ==
    ~parse.running =>
        /\ FlushRule
        /\ /\ parse.input # <<>> /\ ~EndsWithLF(parse.input)
           /\ PendingRow # << <<>> >>
           => parse.out[1] = Append(parse.s.rows, PendingRow)

\* "a,b\nc,d\n" returned as two rows, the pending row being one empty field
C21_Witness ==
    /\ ~parse.running
    /\ parse.input = <<"a", COMMA, "b", LF, "c", COMMA, "d", LF>>
    /\ PendingRow = << <<>> >>
    /\ Len(parse.out[1]) = 2

\* the ids listed as children by the nodes of `ids`
KidsOf(nodes, ids) ==
    UNION {{nodes[i].children[k] : k \in 1..Len(nodes[i].children)} :
             i \in {j \in 1..Len(nodes) : nodes[j]._id \in ids}}

RECURSIVE BelowIn(_, _, _)
\* the ids reached from `ids` in 1..n steps along children references
BelowIn(nodes, ids, n) ==
    IF n = 0 \/ ids = {} THEN {}
    ELSE Let(KidsOf(nodes, ids), LAMBDA next :
           next \cup BelowIn(nodes, next, n - 1))

\* a node lies below itself
Cyclic(nodes) ==
    \E i \in 1..Len(nodes) :
        nodes[i]._id \in BelowIn(nodes, {nodes[i]._id}, Len(nodes))

\* C22: for every envelope whose nodes form any finite graph, with dangling,
\* shared or cyclic children references, the depth-first text search below a
\* cell ends: the call returns a text
C22_SearchEnds == <>(search.status = "returned")

\* without a cycle the call returns, and what it returns is the value of
\* getTextFromNode
SearchEndsWithoutCycle ==
    /\ ~Cyclic(search.nodes) => <>(search.status = "returned")
    /\ [](search.status = "returned" /\ ~Cyclic(search.nodes) =>
            search.result = getTextFromNode(search.nodes, search.nodes[1]))
    /\ [](search.status = "RangeError" => Cyclic(search.nodes))

\* C23: after the user edits one cell of the preview grid (onEdit replaces
\* the source grid, the envelope is rebuilt and extracted again) the preview
\* grid is the grid shown before the edit with only that cell changed, so
\* edits keep the number of rows and columns shown
C23_EditChangesOneCell ==
    [][\A ri \in 1..MaxShown, ci \in 1..2, value \in EditValues :
          EditCell(ri, ci, value) =>
              localRows' = Edited(localRows, ri, ci, value)]_vars

\* the same with the head section and the header-row switch both on or both
\* off
EditChangesOneCellSwitchesAgree ==
    [][\A ri \in 1..MaxShown, ci \in 1..2, value \in EditValues :
          EditCell(ri, ci, value) /\ (includeHead <=> csvHasHeaderRow) =>
              localRows' = Edited(localRows, ri, ci, value)]_vars

RECURSIVE KidsAfter(_, _, _)
\* the ids reached from `ids` in exactly n steps along children references
KidsAfter(nodes, ids, n) ==
    IF n = 0 \/ ids = {} THEN ids
    ELSE KidsAfter(nodes, KidsOf(nodes, ids), n - 1)

\* no path along children references has more steps than there are nodes
\* (the last step may lead to an id of no node), that is, no node lies below
\* itself
NoCycle(nodes) ==
    KidsAfter(nodes, {nodes[i]._id : i \in 1..Len(nodes)},
              Len(nodes) + 1) = {}

\* how many times id is listed in a children sequence
RefCount(nodes, id) ==
    SumSeq([i \in 1..Len(nodes) |->
              Cardinality({k \in 1..Len(nodes[i].children) :
                              nodes[i].children[k] = id})])

\* the nodes listed in no children sequence
Unreferenced(nodes) == SelectSeq(nodes, LAMBDA n : RefCount(nodes, n._id) = 0)

RECURSIVE OnlyChildChain(_, _, _)
\* the node reached from n by n steps to an only child: <<node>>, or <<>> if
\* a node on the way has not exactly one child or the child is no node
OnlyChildChain(nodes, node, n) ==
    IF n = 0 THEN <<node>>
    ELSE IF Len(node.children) # 1 \/ ~HasId(nodes, node.children[1])
    THEN <<>>
    ELSE OnlyChildChain(nodes, GetById(nodes, node.children[1]), n - 1)

\* the nodes form one tree below the node root
TreeBelow(nodes, root) ==
    /\ \A i, j \in 1..Len(nodes) : nodes[i]._id = nodes[j]._id => i = j
    /\ \A i \in 1..Len(nodes) :
          /\ \A k \in 1..Len(nodes[i].children) :
                HasId(nodes, nodes[i].children[k])
          /\ nodes[i]._id # root._id => RefCount(nodes, nodes[i]._id) = 1
    /\ {nodes[i]._id : i \in 1..Len(nodes)} =
          {root._id} \cup BelowIn(nodes, {root._id}, Len(nodes))
    /\ NoCycle(nodes)

====
